---------------------------- MODULE Spec2Model ----------------------------
(***************************************************************************)
(* A model of the NMOScillator compiler: the frame model and its setters,  *)
(* the tempo solver, the binary emitter, the Furnace text parser and the   *)
(* lowering engine (package nmos and package furnace).                     *)
(***************************************************************************)
EXTENDS Integers, Sequences, FiniteSets, TLC

VARIABLES
    frame, lastCall, tempoSets,     \* SpecFrame: a Frame and the last setter call
    target, conv, solved,           \* SpecSolver: a target rate and its solution
    song, rom,                      \* SpecCompile: an NmosSong and Compile's result
    parsedSong, low, fates,         \* SpecLower: a parsed song, the locals of
                                    \* parseNmos and what became of each row
    parser, returned, input,        \* SpecParse: the Parser, what Parse
                                    \* returned and what the input held
    applied                         \* SpecPure: the function applied, its
                                    \* argument (a command or a pitch cell)
                                    \* and what it returned

FrameVars == <<frame, lastCall, tempoSets>>

SolverVars == <<target, conv, solved>>

CompileVars == <<song, rom>>

LowerVars == <<parsedSong, low, fates>>

ParseVars == <<parser, returned, input>>

vars == <<frame, lastCall, tempoSets, target, conv, solved, song, rom,
          parsedSong, low, fates, parser, returned, input, applied>>

(***************************************************************************)
(* package nmos: constants and enumerations                                *)
(***************************************************************************)
maxSquarePeriod == 1023
maxAttenuation == 15
maxTempo == 127

SetSquarePeriodCommand == 0
SetAttenuationCommand == 1
SetNoiseControlCommand == 2

PeriodicNoise == 0
WhiteNoise == 1

LowNoise == 0
MediumNoise == 1
HighNoise == 2
Channel3Noise == 3

NoiseModeIsValid(m) == m \in {PeriodicNoise, WhiteNoise}

NoiseRateIsValid(r) == r \in {LowNoise, MediumNoise, HighNoise, Channel3Noise}

\* The zero value of a Frame (Frame{}).
EmptyFrame ==
    [commands |-> <<>>, FrameDelay |-> 0, hasTempoChange |-> FALSE,
     tempo |-> 0, LoopToTarget |-> FALSE]

\* A command value; the fields a constructor leaves out keep Go's zero value.
MkCommand(t, ch, p, a, m, r) ==
    [commandType |-> t, channel |-> ch, period |-> p, attenuation |-> a,
     noiseMode |-> m, noiseRate |-> r]

(***************************************************************************)
(* Frame setters.  Each returns the frame after the call and whether the   *)
(* call returned an error.                                                 *)
(***************************************************************************)
\* Mutant: the range check on the tempo is missing.
SetNewTempo_NoRangeCheck(f, tempo) ==
    IF f.hasTempoChange = TRUE
    THEN [f |-> f, err |-> TRUE]
    ELSE [f |-> [f EXCEPT !.tempo = tempo, !.hasTempoChange = TRUE],
          err |-> FALSE]

SetNewTempo(f, tempo) ==
    IF f.hasTempoChange = TRUE
    THEN [f |-> f, err |-> TRUE]
    ELSE IF tempo > maxTempo
         THEN [f |-> f, err |-> TRUE]
         ELSE [f |-> [f EXCEPT !.tempo = tempo, !.hasTempoChange = TRUE],
               err |-> FALSE]

\* Mutant: the channel is compared for noise-control commands too.
commandAlreadyExists_AlwaysChannel(f, commandType, channel) ==
    \E i \in 1..Len(f.commands) :
        /\ f.commands[i].commandType = commandType
        /\ f.commands[i].channel = channel

commandAlreadyExists(f, commandType, channel) ==
    \E i \in 1..Len(f.commands) :
        /\ f.commands[i].commandType = commandType
        /\ (f.commands[i].commandType = SetNoiseControlCommand
            \/ f.commands[i].channel = channel)

\* Which of the three checks of SetSquarePeriod returns the error, if any.
SquarePeriodError(f, channel, period) ==
    IF channel > 2 THEN "channel"
    ELSE IF period > maxSquarePeriod THEN "range"
    ELSE IF commandAlreadyExists(f, SetSquarePeriodCommand, channel)
    THEN "duplicate"
    ELSE "none"

\* Mutant: a second period for the same channel is accepted.
SetSquarePeriod_NoDuplicateCheck(f, channel, period) ==
    IF channel > 2
    THEN [f |-> f, err |-> TRUE]
    ELSE IF period > maxSquarePeriod
         THEN [f |-> f, err |-> TRUE]
         ELSE [f |-> [f EXCEPT !.commands = Append(@,
                          MkCommand(SetSquarePeriodCommand, channel, period,
                                    0, PeriodicNoise, LowNoise))],
               err |-> FALSE]

SetSquarePeriod(f, channel, period) ==
    IF channel > 2
    THEN [f |-> f, err |-> TRUE]
    ELSE IF period > maxSquarePeriod
         THEN [f |-> f, err |-> TRUE]
         ELSE IF commandAlreadyExists(f, SetSquarePeriodCommand, channel)
              THEN [f |-> f, err |-> TRUE]
              ELSE [f |-> [f EXCEPT !.commands = Append(@,
                               MkCommand(SetSquarePeriodCommand, channel, period,
                                         0, PeriodicNoise, LowNoise))],
                    err |-> FALSE]

SetAttenuation(f, channel, attenuation) ==
    IF channel > 3
    THEN [f |-> f, err |-> TRUE]
    ELSE IF attenuation > maxAttenuation
         THEN [f |-> f, err |-> TRUE]
         ELSE IF commandAlreadyExists(f, SetAttenuationCommand, channel)
              THEN [f |-> f, err |-> TRUE]
              ELSE [f |-> [f EXCEPT !.commands = Append(@,
                               MkCommand(SetAttenuationCommand, channel, 0,
                                         attenuation, PeriodicNoise, LowNoise))],
                    err |-> FALSE]

SetNoiseControl(f, mode, rate) ==
    IF ~NoiseModeIsValid(mode)
    THEN [f |-> f, err |-> TRUE]
    ELSE IF ~NoiseRateIsValid(rate)
         THEN [f |-> f, err |-> TRUE]
         ELSE IF commandAlreadyExists(f, SetNoiseControlCommand, 0)
              THEN [f |-> f, err |-> TRUE]
              ELSE [f |-> [f EXCEPT !.commands = Append(@,
                               MkCommand(SetNoiseControlCommand, 3, 0, 0,
                                         mode, rate))],
                    err |-> FALSE]

(***************************************************************************)
(* Frame.CalculateSize: the loop over the commands, then the delay byte.   *)
(***************************************************************************)
RECURSIVE CommandBytesFrom(_, _)
CommandBytesFrom(cmds, i) ==
    IF i > Len(cmds)
    THEN 0
    ELSE (IF cmds[i].commandType = SetSquarePeriodCommand THEN 2 ELSE 1)
         + CommandBytesFrom(cmds, i + 1)

\* Mutant: a frame with a tempo change has 16 bytes.
FrameCalculateSize_TempoSixteen(f) ==
    IF f.hasTempoChange
    THEN 16
    ELSE LET runningTotal == 1 + CommandBytesFrom(f.commands, 1)
         IN  IF runningTotal > 1 \/ f.FrameDelay > 0
             THEN runningTotal + 1
             ELSE runningTotal

\* Mutant: a frame with a tempo change is not widened to 15 bytes.
FrameCalculateSize_TempoNotWidened(f) ==
    LET runningTotal == 1 + CommandBytesFrom(f.commands, 1)
    IN  IF runningTotal > 1 \/ f.FrameDelay > 0
        THEN runningTotal + 1
        ELSE runningTotal

\* Mutant: the delay byte is added only when there are commands.
FrameCalculateSize_DelayOnlyWithCommands(f) ==
    IF f.hasTempoChange
    THEN 15
    ELSE LET runningTotal == 1 + CommandBytesFrom(f.commands, 1)
         IN  IF runningTotal > 1
             THEN runningTotal + 1
             ELSE runningTotal

FrameCalculateSize(f) ==
    IF f.hasTempoChange
    THEN 15
    ELSE LET runningTotal == 1 + CommandBytesFrom(f.commands, 1)
         IN  IF runningTotal > 1 \/ f.FrameDelay > 0
             THEN runningTotal + 1
             ELSE runningTotal

(***************************************************************************)
(* Tempo solver.  A float64 is modelled as an exact rational [num, den]    *)
(* with den > 0; a target rate with den = 0 is the result of a division by *)
(* zero (+Inf, -Inf or NaN).                                               *)
(***************************************************************************)
Abs(x) == IF x < 0 THEN -x ELSE x

Sign(x) == IF x < 0 THEN -1 ELSE IF x > 0 THEN 1 ELSE 0

\* math.Floor(a / b) and math.Ceil(a / b) for integers a and b # 0.
FloorDiv(a, b) == IF b > 0 THEN a \div b ELSE (-a) \div (-b)

\* a/b < c/d for b, d > 0, by continued fractions (no product is formed).
RECURSIVE RatLess(_, _, _, _)
RatLess(a, b, c, d) ==
    LET qa == a \div b
        qc == c \div d
        ra == a % b
        rc == c % d
    IN  IF qa # qc THEN qa < qc
        ELSE IF rc = 0 THEN FALSE
        ELSE IF ra = 0 THEN TRUE
        ELSE RatLess(d, rc, b, ra)

\* The uint8(x) conversion of a float64 holding the integer v.  Go leaves the
\* result implementation-dependent when v is not in 0..255: the low byte of
\* the integer ("wrap") and the nearest bound ("saturate") are both modelled.
ConvModes == {"wrap", "saturate"}

ToUint8(v, mode) ==
    IF v \in 0..255 THEN v
    ELSE IF mode = "wrap" THEN v % 256
    ELSE IF v < 0 THEN 0 ELSE 255

Min(a, b) == IF a < b THEN a ELSE b

effectiveTickRate(tempo, frameDelay) ==
    [num |-> 31250, den |-> (frameDelay + 1) * (tempo + 129)]

\* math.Abs(achieved - targetRate) / targetRate for a finite non-zero target.
RelativeError(achieved, targetRate) ==
    [num |-> Sign(targetRate.num)
                * Abs(achieved.num * targetRate.den - targetRate.num * achieved.den),
     den |-> achieved.den * Abs(targetRate.num)]

PlusInf == [inf |-> TRUE, num |-> 1, den |-> 1]

Finite(r) == [inf |-> FALSE, num |-> r.num, den |-> r.den]

Zero == [num |-> 0, den |-> 1]

\* relErr < bestErr on float64 values (bestErr may be +Inf).
ErrLess(x, y) ==
    IF x.inf THEN FALSE
    ELSE IF y.inf THEN TRUE
    ELSE RatLess(x.num, x.den, y.num, y.den)

\* One turn of the loop over the candidates, with the clamp min(127, tempo).
TryCandidate(best, c, targetRate, frameDelay) ==
    LET tempo == Min(127, c)
        achieved == effectiveTickRate(tempo, frameDelay)
        relErr == Finite(RelativeError(achieved, targetRate))
    IN  IF ErrLess(relErr, best.relErr)
        THEN [tempo |-> tempo, achieved |-> achieved, relErr |-> relErr]
        ELSE best

\* Mutant: the candidates are not clamped to 127.
bestTempoForDelay_NoClamp(targetRate, frameDelay, mode) ==
    IF targetRate.den = 0 \/ targetRate.num = 0
    THEN [tempo |-> 0, achieved |-> Zero, relErr |-> PlusInf]
    ELSE
    LET x == 31250 * targetRate.den
        y == (frameDelay + 1) * targetRate.num
        c == ToUint8(FloorDiv(x, y) - 129, mode)
        achieved == effectiveTickRate(c, frameDelay)
    IN  [tempo |-> c, achieved |-> achieved,
         relErr |-> Finite(RelativeError(achieved, targetRate))]

\* bestTempoForDelay.  With a target of 0, +-Inf or NaN every relErr is +Inf
\* or NaN, no comparison relErr < bestErr succeeds and the initial values
\* (0, 0.0, +Inf) are returned whatever the conversions give.
bestTempoForDelay(targetRate, frameDelay, mode) ==
    IF targetRate.den = 0 \/ targetRate.num = 0
    THEN [tempo |-> 0, achieved |-> Zero, relErr |-> PlusInf]
    ELSE
    LET x == 31250 * targetRate.den
        y == (frameDelay + 1) * targetRate.num
        candidates == << ToUint8(FloorDiv(x, y) - 129, mode),
                         ToUint8(-FloorDiv(-x, y) - 129, mode) >>
        start == [tempo |-> 0, achieved |-> Zero, relErr |-> PlusInf]
    IN  TryCandidate(TryCandidate(start, candidates[1], targetRate, frameDelay),
                     candidates[2], targetRate, frameDelay)

\* 1.0% tolerance.
maxRateError == [inf |-> FALSE, num |-> 1, den |-> 100]

NoSolution ==
    [tempo |-> 0, frameDelay |-> 0, achieved |-> Zero,
     relErr |-> Finite(Zero), ok |-> FALSE]

\* Does the loop "for fd := range 255" of FindBestRate return at fd?
DelayAccepted(targetRate, fd, mode) ==
    ~ErrLess(maxRateError, bestTempoForDelay(targetRate, fd, mode).relErr)

\* The loop from delay lo on: it returns at the first accepted delay.  The
\* delays are searched fifteen at a time to keep the recursion shallow.
RECURSIVE FindBestRateFrom(_, _, _)
FindBestRateFrom(targetRate, lo, mode) ==
    IF lo >= 255
    THEN NoSolution
    ELSE LET hi == Min(lo + 14, 254)
             accepted == {fd \in lo..hi : DelayAccepted(targetRate, fd, mode)}
         IN  IF accepted = {}
             THEN FindBestRateFrom(targetRate, hi + 1, mode)
             ELSE LET fd == CHOOSE d \in accepted : \A k \in accepted : d <= k
                      b == bestTempoForDelay(targetRate, fd, mode)
                  IN  [tempo |-> b.tempo, frameDelay |-> fd,
                       achieved |-> b.achieved, relErr |-> b.relErr, ok |-> TRUE]

FindBestRate(targetRate, mode) ==
    IF ~ErrLess(Finite(Zero), maxRateError)
    THEN NoSolution
    ELSE FindBestRateFrom(targetRate, 0, mode)

(***************************************************************************)
(* Binary emitter.  Bytes are integers 0..255.                             *)
(***************************************************************************)
\* a | b and a & b on bytes.
RECURSIVE BitOr(_, _)
BitOr(a, b) ==
    IF a = 0 THEN b
    ELSE IF b = 0 THEN a
    ELSE 2 * BitOr(a \div 2, b \div 2) + (IF a % 2 = 1 \/ b % 2 = 1 THEN 1 ELSE 0)

RECURSIVE BitAnd(_, _)
BitAnd(a, b) ==
    IF a = 0 \/ b = 0 THEN 0
    ELSE 2 * BitAnd(a \div 2, b \div 2) + (IF a % 2 = 1 /\ b % 2 = 1 THEN 1 ELSE 0)

\* Mutant: the channel is not shifted into bits 6 and 5.
ChannelBits_NoShift(channel) == BitAnd(channel, 7)

\* (c.channel & 0b00000111) << 5 on a uint8.
ChannelBits(channel) == (BitAnd(channel, 7) * 32) % 256

\* command.toBytes; an unhandled command type panics (no bytes).
toBytes(c) ==
    LET NoiseModeBit(m) == IF m = WhiteNoise THEN 1 ELSE 0
        NoiseRateBits(r) ==
            IF r = HighNoise THEN 0
            ELSE IF r = MediumNoise THEN 1
            ELSE IF r = LowNoise THEN 2
            ELSE IF r = Channel3Noise THEN 3
            ELSE 0
    IN
    IF c.commandType = SetSquarePeriodCommand
    THEN << BitOr(BitOr(128, ChannelBits(c.channel)), BitAnd(c.period, 15)),
            BitAnd(c.period \div 16, 63) >>
    ELSE IF c.commandType = SetAttenuationCommand
    THEN << BitOr(BitOr(144, ChannelBits(c.channel)), BitAnd(c.attenuation, 15)) >>
    ELSE IF c.commandType = SetNoiseControlCommand
    THEN << BitOr(BitOr(BitOr(128, ChannelBits(c.channel)),
                        BitAnd(NoiseModeBit(c.noiseMode), 1) * 4),
                  BitAnd(NoiseRateBits(c.noiseRate), 3)) >>
    ELSE <<>>

\* Mutant: frame 0 is not widened to 15 bytes when it has no tempo change.
SongCalculateSize_NoFirstFrameRule(s) ==
    LET RECURSIVE Sum(_)
        Sum(i) == IF i > Len(s.Frames) THEN 0
                  ELSE FrameCalculateSize(s.Frames[i]) + Sum(i + 1)
    IN  Sum(1)

\* NmosSong.CalculateSize.  Frames[1] is the frame of index 0.
SongCalculateSize(s) ==
    LET RECURSIVE Sum(_)
        Sum(i) ==
            IF i > Len(s.Frames) THEN 0
            ELSE (IF i = 1 /\ ~s.Frames[i].hasTempoChange
                  THEN 15
                  ELSE FrameCalculateSize(s.Frames[i]))
                 + Sum(i + 1)
    IN  Sum(1)

\* The loop "for c > 0" of Compile over one frame: c is the command index,
\* idx the chipCommandIndex, last the lastCommand, out the bytes written.
RECURSIVE EmitCommands(_, _, _, _, _)
EmitCommands(f, c, idx, last, out) ==
    IF c <= 0
    THEN [bytes |-> out, panicked |-> FALSE]
    ELSE IF c = 14
    THEN EmitCommands(f, c - 1, idx, last,
                      IF f.hasTempoChange
                      THEN Append(out, BitAnd(f.tempo, 127))
                      ELSE out)
    ELSE IF c = 1
    THEN EmitCommands(f, c - 1, idx, last, Append(out, f.FrameDelay))
    ELSE IF (c > 1 /\ c < 14) /\ idx >= Len(f.commands)
    THEN EmitCommands(f, c - 1, idx, last, Append(out, last))
    ELSE IF c > 1 /\ c < 14
    THEN LET commandBytes == toBytes(f.commands[idx + 1])
         IN  IF Len(commandBytes) = 0
             THEN [bytes |-> out, panicked |-> TRUE]
             ELSE EmitCommands(f, c - Len(commandBytes), idx + 1,
                               commandBytes[Len(commandBytes)],
                               out \o commandBytes)
    ELSE [bytes |-> out, panicked |-> TRUE]

\* The command indexes c at which the loop "for c > 0" of Compile writes a
\* two-byte command, from index c and chipCommandIndex idx on.
RECURSIVE PeriodSlots(_, _, _)
PeriodSlots(f, c, idx) ==
    IF c <= 0 THEN {}
    ELSE IF c = 14 \/ c = 1 THEN PeriodSlots(f, c - 1, idx)
    ELSE IF idx >= Len(f.commands) THEN PeriodSlots(f, c - 1, idx)
    ELSE (IF Len(toBytes(f.commands[idx + 1])) = 2 THEN {c} ELSE {})
             \cup PeriodSlots(f, c - Len(toBytes(f.commands[idx + 1])), idx + 1)

\* Mutant: the header never carries the loop-target flag.
EmitFrame_NoLoopTargetFlag(s, i) ==
    LET given == s.Frames[i + 1]
        f == IF i = 0 THEN SetNewTempo(given, s.InitialTempo).f ELSE given
        numCommands == BitAnd(FrameCalculateSize(f), 15) - 1
        header == BitOr(IF f.LoopToTarget THEN 64 ELSE 0, numCommands % 256)
    IN  EmitCommands(f, numCommands, 0, 0, <<header>>)

\* Mutant: the initial tempo is not injected into frame 0.
EmitFrame_NoInjection(s, i) ==
    LET f == s.Frames[i + 1]
        numCommands == BitAnd(FrameCalculateSize(f), 15) - 1
        header == BitOr(BitOr(IF i = s.LoopTarget THEN 128 ELSE 0,
                              IF f.LoopToTarget THEN 64 ELSE 0),
                        numCommands % 256)
    IN  EmitCommands(f, numCommands, 0, 0, <<header>>)

\* One turn of the loop over the frames: frame i (from 0) of song s.
EmitFrame(s, i) ==
    LET given == s.Frames[i + 1]
        f == IF i = 0 THEN SetNewTempo(given, s.InitialTempo).f ELSE given
        frameSize == FrameCalculateSize(f)
        numCommands == BitAnd(frameSize, 15) - 1
        header == BitOr(BitOr(IF i = s.LoopTarget THEN 128 ELSE 0,
                              IF f.LoopToTarget THEN 64 ELSE 0),
                        numCommands % 256)
    IN  EmitCommands(f, numCommands, 0, 0, <<header>>)

\* Mutant: the loop works on the frames of the song themselves, so the
\* initial tempo injected into frame 0 stays in the song.
SongAfterCompile_WritesBack(s) ==
    IF Len(s.Frames) = 0
    THEN s
    ELSE [s EXCEPT !.Frames[1] = SetNewTempo(@, s.InitialTempo).f]

\* The song once Compile returned: "for i, frame := range s.Frames" hands
\* the loop a copy of each Frame, SetNewTempo on frame 0 assigns the copy's
\* tempo and hasTempoChange, and nothing in the loop assigns s or the
\* commands of a frame.
SongAfterCompile(s) == s

\* NmosSong.Compile: the bytes, the size-mismatch error, or a panic.
Compile(s) ==
    LET totalSize == SongCalculateSize(s)
        RECURSIVE Emit(_, _)
        Emit(i, buffer) ==
            IF i >= Len(s.Frames)
            THEN [bytes |-> buffer, panicked |-> FALSE]
            ELSE LET e == EmitFrame(s, i)
                 IN  IF e.panicked
                     THEN [bytes |-> buffer \o e.bytes, panicked |-> TRUE]
                     ELSE Emit(i + 1, buffer \o e.bytes)
        r == Emit(0, <<>>)
    IN  IF r.panicked
        THEN [bytes |-> <<>>, err |-> FALSE, panicked |-> TRUE]
        ELSE IF Len(r.bytes) # totalSize
        THEN [bytes |-> <<>>, err |-> TRUE, panicked |-> FALSE]
        ELSE [bytes |-> r.bytes, err |-> FALSE, panicked |-> FALSE]

(***************************************************************************)
(* Lowering engine (Parser.parseNmos): the Song IR of one subsong is       *)
(* turned into the frames of an NmosSong.                                  *)
(***************************************************************************)
EffectJumpToPattern == 0
EffectJumpToNextPattern == 1
EffectSpeed == 2
EffectNoiseControl == 3
EffectTickRateHz == 4
EffectTickRateBpm == 5
EffectStopSong == 6

noiseRateCh3 == 0
noiseRatePreset == 1

\* A Note with the zero value in every field but Channel.
BlankNote(ch) ==
    [Pitch |-> 0, HasPitch |-> FALSE, Volume |-> 0, HasVolume |-> FALSE,
     Off |-> FALSE, Channel |-> ch]

\* Mutant: the terminal frame lacks the loop bit.
haltFrame_NoLoopBit == EmptyFrame

\* The Go zero value nmos.Frame{} with LoopToTarget set.
haltFrame == [EmptyFrame EXCEPT !.LoopToTarget = TRUE]

\* The uint16(x) conversion of a float64 holding the integer v; as for uint8
\* the result is implementation-dependent when v is out of range.
ToUint16(v, mode) ==
    IF v \in 0..65535 THEN v
    ELSE IF mode = "wrap" THEN v % 65536
    ELSE IF v < 0 THEN 0 ELSE 65535

\* math.RoundToEven(a / b) for integers a >= 0 and b > 0.
RoundToEven(a, b) ==
    LET q == a \div b
        r == a % b
    IN  IF 2 * r < b THEN q
        ELSE IF 2 * r > b THEN q + 1
        ELSE IF q % 2 = 0 THEN q ELSE q + 1

\* pitchToFreq for the A of each octave, where 2^((pitch+24-69)/12) is an
\* exact power of two: the frequency tuning * 2^k as a rational.
pitchToFreq(pitch, tuning) ==
    LET k == (pitch + 24 - 69) \div 12
    IN  IF k >= 0
        THEN [num |-> tuning * 2^k, den |-> 1]
        ELSE [num |-> tuning, den |-> 2^(-k)]

\* CalculateSquarePeriod for a rational frequency and an integer clock rate.
CalculateSquarePeriod(freq, clockRate, mode) ==
    ToUint16(RoundToEven(clockRate * freq.den, 32 * freq.num), mode)

\* Go's remainder a % b for b > 0: it has the sign of a.
GoRem(a, b) == IF a >= 0 THEN a % b ELSE -((-a) % b)

\* Mutant: the reset frame does not silence channel 3.
resetFrame_NoiseNotSilenced ==
    LET f0 == SetNoiseControl(EmptyFrame, WhiteNoise, Channel3Noise).f
        f1 == SetAttenuation(f0, 0, 15).f
        f2 == SetAttenuation(f1, 1, 15).f
    IN  SetAttenuation(f2, 2, 15).f

\* The reset frame: white noise at the rate of channel 3 and every channel
\* silenced.  Errors of the four SetAttenuation calls are not looked at.
resetFrame ==
    LET f0 == SetNoiseControl(EmptyFrame, WhiteNoise, Channel3Noise).f
        f1 == SetAttenuation(f0, 0, 15).f
        f2 == SetAttenuation(f1, 1, 15).f
        f3 == SetAttenuation(f2, 2, 15).f
    IN  SetAttenuation(f3, 3, 15).f

\* The locals of parseNmos before it starts.
LowerStartState ==
    [pc |-> "start", err |-> "none",
     song |-> [InitialTempo |-> 0, Frames |-> <<>>, LoopTarget |-> 0],
     baseFrameDelay |-> 0, noiseRateType |-> noiseRateCh3,
     noiseMode |-> PeriodicNoise, currentSpeed |-> 0,
     currentTickRate |-> [num |-> 0, den |-> 1],
     finalTickrate |-> [num |-> 0, den |-> 1],
     isHalted |-> FALSE, isLooped |-> FALSE,
     channelVolumes |-> <<15, 15, 15, 15>>,
     channelOffs |-> <<TRUE, TRUE, TRUE, TRUE>>,
     rowIndex |-> 0, newIndex |-> 0, isBlank |-> TRUE, frame |-> EmptyFrame]

Failed(l, e) == [l EXCEPT !.pc = "error", !.err = e]

\* parseNmos from the result best of its first FindBestRate call up to the
\* row loop (lines 1128..1172).
LowerSetup(l, ps, best) ==
    LET subsong == ps.Subsongs[1]
    IN  IF ~best.ok THEN Failed(l, "tickrate")
        ELSE IF ps.SoundChips[1].ClockDiv THEN Failed(l, "clock div")
        ELSE [l EXCEPT !.pc = "rows",
                       !.song.InitialTempo = best.tempo,
                       !.baseFrameDelay = best.frameDelay,
                       !.currentSpeed = subsong.Speeds[1],
                       !.currentTickRate = subsong.TickRate,
                       !.song.Frames = <<resetFrame>>]

\* subsong.TickRate / (float64(subsong.Speeds[0]) * float64(subsong.TimeBase+1))
InitialTickrate(subsong) ==
    [num |-> subsong.TickRate.num,
     den |-> subsong.TickRate.den * subsong.Speeds[1] * (subsong.TimeBase + 1)]

\* parseNmos up to the row loop (lines 1089..1172) for subsong 0.
LowerPrologue(l, ps, mode) ==
    IF Len(ps.Subsongs) = 0 THEN Failed(l, "no subsong")
    ELSE LowerSetup(l, ps, FindBestRate(InitialTickrate(ps.Subsongs[1]), mode))

\* The three tempo-changing effects share their code but for the target
\* rate and the local they update.  finalTickrate is the target rate each
\* hands to FindBestRate:
\*   Speed        currentTickRate / (Value * (TimeBase+1))
\*   TickRateHz   Value / (currentSpeed * (TimeBase+1))
\*   TickRateBpm  (Value*24/60) / (currentSpeed * (TimeBase+1))
finalTickrate(l, effect, timeBase) ==
    IF effect.Type = EffectSpeed
    THEN [num |-> l.currentTickRate.num,
          den |-> l.currentTickRate.den * effect.Value * (timeBase + 1)]
    ELSE IF effect.Type = EffectTickRateHz
    THEN [num |-> effect.Value, den |-> l.currentSpeed * (timeBase + 1)]
    ELSE [num |-> effect.Value * 24,
          den |-> 60 * l.currentSpeed * (timeBase + 1)]

\* Mutant: a Speed effect leaves currentSpeed as it was.
Retimed_KeepSpeed(l, effect) ==
    IF effect.Type = EffectSpeed
    THEN l
    ELSE IF effect.Type = EffectTickRateHz
    THEN [l EXCEPT !.currentTickRate = [num |-> effect.Value, den |-> 1]]
    ELSE [l EXCEPT !.currentTickRate = [num |-> effect.Value * 24, den |-> 60]]

\* The local the effect updates once the frame has its tempo: currentSpeed
\* = uint8(Value), currentTickRate = Value or currentTickRate = Value*24/60.
Retimed(l, effect) ==
    IF effect.Type = EffectSpeed
    THEN [l EXCEPT !.currentSpeed = effect.Value % 256]
    ELSE IF effect.Type = EffectTickRateHz
    THEN [l EXCEPT !.currentTickRate = [num |-> effect.Value, den |-> 1]]
    ELSE [l EXCEPT !.currentTickRate = [num |-> effect.Value * 24, den |-> 60]]

\* Mutant: the error of SetNewTempo is not looked at.
Retempo_IgnoreTempoError(l, effect, best) ==
    LET r == SetNewTempo(l.frame, best.tempo)
    IN  IF ~best.ok THEN Failed(l, "tickrate")
        ELSE Retimed([l EXCEPT !.baseFrameDelay = best.frameDelay,
                               !.frame = r.f, !.isBlank = FALSE], effect)

\* A tempo-changing effect from the result best of its FindBestRate call.
Retempo(l, effect, best) ==
    LET r == SetNewTempo(l.frame, best.tempo)
    IN  IF ~best.ok THEN Failed(l, "tickrate")
        ELSE IF r.err
        THEN Failed([l EXCEPT !.baseFrameDelay = best.frameDelay], "frame tempo")
        ELSE Retimed([l EXCEPT !.baseFrameDelay = best.frameDelay,
                               !.frame = r.f, !.isBlank = FALSE], effect)

\* One turn of the loop over row.Effects (the switch on effect.Type).
ApplyEffect(l, effect, subsong, mode) ==
    LET patternLength == subsong.PatternLength
        timeBase == subsong.TimeBase
    IN
    IF effect.Type = EffectJumpToPattern
    THEN IF patternLength = 0 THEN Failed(l, "panic")
         ELSE IF effect.Value > l.rowIndex \div patternLength
         THEN [l EXCEPT !.newIndex = effect.Value * patternLength]
         ELSE [l EXCEPT !.song.LoopTarget = effect.Value * patternLength + 1,
                        !.isLooped = TRUE, !.isBlank = FALSE]
    ELSE IF effect.Type = EffectJumpToNextPattern
    THEN IF patternLength = 0 THEN Failed(l, "panic")
         ELSE [l EXCEPT !.newIndex =
                            (l.rowIndex \div patternLength + 1) * patternLength]
    ELSE IF effect.Type = EffectSpeed /\ Len(subsong.Speeds) > 1
    THEN l
    ELSE IF effect.Type \in {EffectSpeed, EffectTickRateHz, EffectTickRateBpm}
    THEN Retempo([l EXCEPT !.finalTickrate = finalTickrate(l, effect, timeBase)],
                 effect,
                 FindBestRate(finalTickrate(l, effect, timeBase), mode))
    ELSE IF effect.Type = EffectNoiseControl
    THEN LET rateVal == effect.Value \div 16
             modeVal == effect.Value % 16
             rateType == IF rateVal = 1 THEN noiseRateCh3 ELSE noiseRatePreset
             noiseMode == IF modeVal = 1 THEN WhiteNoise ELSE PeriodicNoise
             n == [l EXCEPT !.noiseRateType = rateType, !.noiseMode = noiseMode]
             r == SetNoiseControl(l.frame, noiseMode, Channel3Noise)
         IN  IF rateType = noiseRateCh3
             THEN IF r.err THEN Failed(n, "noise control")
                  ELSE [n EXCEPT !.frame = r.f, !.isBlank = FALSE]
             ELSE [n EXCEPT !.isBlank = FALSE]
    ELSE IF effect.Type = EffectStopSong
    THEN [l EXCEPT !.isHalted = TRUE, !.isBlank = FALSE]
    ELSE Failed(l, "panic")

\* The loop over row.Effects from the i-th effect on; an error return or a
\* panic ends it.
RECURSIVE ApplyEffects(_, _, _, _, _)
ApplyEffects(l, effects, i, subsong, mode) ==
    IF i > Len(effects) \/ l.pc = "error" THEN l
    ELSE ApplyEffects(ApplyEffect(l, effects[i], subsong, mode),
                      effects, i + 1, subsong, mode)

\* frame.SetAttenuation(ch, 0xf - channelVolumes[ch]) and channelOffs[ch] =
\* false, done when a pitch arrives on a channel that is off.  The
\* subtraction is on uint8 values.
\* Mutant: the channel stays off after the attenuation is emitted.
TurnOn_StaysOff(l, ch, e) ==
    LET r == SetAttenuation(l.frame, ch, (15 - l.channelVolumes[ch + 1]) % 256)
    IN  IF ~l.channelOffs[ch + 1] THEN l
        ELSE IF r.err THEN Failed(l, e)
        ELSE [l EXCEPT !.frame = r.f]

TurnOn(l, ch, e) ==
    LET r == SetAttenuation(l.frame, ch, (15 - l.channelVolumes[ch + 1]) % 256)
    IN  IF ~l.channelOffs[ch + 1] THEN l
        ELSE IF r.err THEN Failed(l, e)
        ELSE [l EXCEPT !.frame = r.f, !.channelOffs[ch + 1] = FALSE]

\* The three "if" statements of the loop over row.Notes, in order.
NoteOff(l, note) ==
    LET r == SetAttenuation(l.frame, note.Channel, 15)
    IN  IF ~note.Off THEN l
        ELSE IF r.err THEN Failed(l, "channel off")
        ELSE [l EXCEPT !.frame = r.f, !.channelOffs[note.Channel + 1] = TRUE,
                       !.isBlank = FALSE]

NoteVolume(l, note) ==
    LET r == SetAttenuation(l.frame, note.Channel, (15 - note.Volume) % 256)
    IN  IF ~note.HasVolume \/ l.pc = "error" THEN l
        ELSE IF note.Channel > 3 THEN Failed(l, "panic")
        ELSE IF l.channelOffs[note.Channel + 1]
        THEN [l EXCEPT !.channelVolumes[note.Channel + 1] = note.Volume,
                       !.isBlank = FALSE]
        ELSE IF r.err THEN Failed(l, "channel attenuation")
        ELSE [l EXCEPT !.frame = r.f,
                       !.channelVolumes[note.Channel + 1] = note.Volume,
                       !.isBlank = FALSE]

NotePitch(l, note, tuning, mode) ==
    LET clockRate == 4000000
        period == CalculateSquarePeriod(pitchToFreq(note.Pitch, tuning),
                                        clockRate, mode)
        pitchClass == GoRem(note.Pitch, 12)
        preset == IF pitchClass = 0 THEN LowNoise
                  ELSE IF pitchClass = 1 THEN MediumNoise ELSE HighNoise
    IN  IF ~note.HasPitch \/ l.pc = "error" THEN l
        ELSE IF note.Channel < 3
        THEN LET r == SetSquarePeriod(l.frame, note.Channel, period)
                 n == TurnOn([l EXCEPT !.frame = r.f], note.Channel, "channel on")
             IN  IF r.err THEN Failed(l, "channel period")
                 ELSE IF n.pc = "error" THEN n
                 ELSE [n EXCEPT !.isBlank = FALSE]
        ELSE IF note.Channel = 3 /\ l.noiseRateType = noiseRateCh3
        THEN LET r == SetSquarePeriod(l.frame, 2, period)
                 n == TurnOn([l EXCEPT !.frame = r.f], 3, "noise attenuation")
             IN  IF r.err THEN Failed(l, "noise period")
                 ELSE IF n.pc = "error" THEN n
                 ELSE [n EXCEPT !.isBlank = FALSE]
        ELSE IF note.Channel = 3
        THEN LET r == SetNoiseControl(l.frame, l.noiseMode, preset)
                 n == TurnOn([l EXCEPT !.frame = r.f], 3, "noise attenuation")
             IN  IF pitchClass \notin {0, 1, 2} THEN Failed(l, "noise pitch")
                 ELSE IF r.err THEN Failed(l, "noise control")
                 ELSE IF n.pc = "error" THEN n
                 ELSE [n EXCEPT !.isBlank = FALSE]
        ELSE l

ApplyNote(l, note, tuning, mode) ==
    NotePitch(NoteVolume(NoteOff(l, note), note), note, tuning, mode)

RECURSIVE ApplyNotes(_, _, _, _, _)
ApplyNotes(l, notes, i, tuning, mode) ==
    IF i > Len(notes) \/ l.pc = "error" THEN l
    ELSE ApplyNotes(ApplyNote(l, notes[i], tuning, mode),
                    notes, i + 1, tuning, mode)

\* "frame.FrameDelay = baseFrameDelay" and the loop over row.Notes.
RowNotes(l, row, tuning, mode) ==
    IF l.pc = "error" THEN l
    ELSE ApplyNotes([l EXCEPT !.frame.FrameDelay = l.baseFrameDelay],
                    row.Notes, 1, tuning, mode)

\* Mutant: newIndex starts at rowIndex, not at rowIndex + 1.
RowBody_NoAdvance(l, ps, mode) ==
    LET subsong == ps.Subsongs[1]
        row == subsong.Rows[l.rowIndex + 1]
        l0 == [l EXCEPT !.newIndex = l.rowIndex, !.frame = EmptyFrame,
                        !.isBlank = TRUE]
    IN  RowNotes(ApplyEffects(l0, row.Effects, 1, subsong, mode),
                 row, ps.Tuning, mode)

\* One turn of the row loop up to "rowIndex = newIndex": the effects, the
\* frame delay and the notes of row l.rowIndex.
RowBody(l, ps, mode) ==
    LET subsong == ps.Subsongs[1]
        row == subsong.Rows[l.rowIndex + 1]
        l0 == [l EXCEPT !.newIndex = l.rowIndex + 1, !.frame = EmptyFrame,
                        !.isBlank = TRUE]
    IN  RowNotes(ApplyEffects(l0, row.Effects, 1, subsong, mode),
                 row, ps.Tuning, mode)

\* Mutant: a blank row is folded whatever the delay of the previous frame.
RowTail_FoldsAlways(l) ==
    LET n == Len(l.song.Frames)
        m == [l EXCEPT !.rowIndex = l.newIndex]
    IN  IF l.pc = "error" THEN l
        ELSE IF l.isBlank
        THEN [m EXCEPT !.song.Frames[n].FrameDelay = (@ + l.baseFrameDelay) % 256]
        ELSE IF l.isHalted
        THEN [m EXCEPT !.song.LoopTarget = n,
                       !.song.Frames = @ \o <<l.frame, haltFrame>>,
                       !.pc = "finish"]
        ELSE IF l.isLooped
        THEN [m EXCEPT !.song.Frames = @ \o <<l.frame, l.frame, haltFrame>>,
                       !.pc = "finish"]
        ELSE [m EXCEPT !.song.Frames = Append(@, l.frame)]

\* The rest of the turn: blank-row coalescing, the halt and the loop exits
\* and the append of the row's frame.
RowTail(l) ==
    LET n == Len(l.song.Frames)
        prevFrame == l.song.Frames[n]
        m == [l EXCEPT !.rowIndex = l.newIndex]
    IN  IF l.pc = "error" THEN l
        ELSE IF l.isBlank /\ prevFrame.FrameDelay + l.baseFrameDelay <= 255
        THEN [m EXCEPT !.song.Frames[n].FrameDelay = @ + l.baseFrameDelay]
        ELSE IF l.isHalted
        THEN [m EXCEPT !.song.LoopTarget = n,
                       !.song.Frames = @ \o <<l.frame, haltFrame>>,
                       !.pc = "finish"]
        ELSE IF l.isLooped
        THEN [m EXCEPT !.song.Frames = @ \o <<l.frame, l.frame, haltFrame>>,
                       !.pc = "finish"]
        ELSE [m EXCEPT !.song.Frames = Append(@, l.frame)]

\* Mutant: no terminal frame is appended after the row loop.
LowerEpilogue_NoTerminal(l) == [l EXCEPT !.pc = "done"]

\* parseNmos after the row loop (lines 1425..1435).
LowerEpilogue(l) ==
    IF ~(l.isHalted \/ l.isLooped)
    THEN [l EXCEPT !.song.Frames = Append(@, haltFrame),
                   !.song.LoopTarget = 0, !.pc = "done"]
    ELSE [l EXCEPT !.pc = "done"]

(***************************************************************************)
(* Furnace text parser (package furnace).  A string is a sequence of       *)
(* one-character strings.                                                  *)
(***************************************************************************)
\* The value of a hexadecimal digit, -1 for any other character.
HexVal(c) ==
    LET UpperHexDigits ==
            <<"0", "1", "2", "3", "4", "5", "6", "7", "8", "9",
              "A", "B", "C", "D", "E", "F">>
        LowerHexDigits ==
            <<"0", "1", "2", "3", "4", "5", "6", "7", "8", "9",
              "a", "b", "c", "d", "e", "f">>
    IN
    IF \E i \in 1..16 : UpperHexDigits[i] = c
    THEN (CHOOSE i \in 1..16 : UpperHexDigits[i] = c) - 1
    ELSE IF \E i \in 1..16 : LowerHexDigits[i] = c
    THEN (CHOOSE i \in 1..16 : LowerHexDigits[i] = c) - 1
    ELSE -1

RECURSIVE HexNum(_)
HexNum(s) ==
    IF s = <<>> THEN 0
    ELSE 16 * HexNum(SubSeq(s, 1, Len(s) - 1)) + HexVal(s[Len(s)])

\* strconv.ParseUint(s, 16, bits): the value, or -1 for an error.
ParseUintHex(s, bits) ==
    IF s = <<>> \/ \E i \in 1..Len(s) : HexVal(s[i]) < 0 THEN -1
    ELSE IF HexNum(s) >= 2^bits THEN -1
    ELSE HexNum(s)

\* strings.ToUpper on the letters a pitch string may hold.
ToUpper(c) ==
    CASE c = "a" -> "A" [] c = "b" -> "B" [] c = "c" -> "C" [] c = "d" -> "D"
      [] c = "e" -> "E" [] c = "f" -> "F" [] c = "g" -> "G" [] OTHER -> c

isValidPitchString(pitchString) ==
    /\ Len(pitchString) = 3
    /\ ToUpper(pitchString[1]) \in {"A", "B", "C", "D", "E", "F", "G"}
    /\ \E i \in 1..8 : <<"0", "1", "2", "3", "4", "5", "6", "7">>[i] = pitchString[3]
    /\ pitchString[2] \in {"#", "+", "-", "_"}
    /\ ~(pitchString[2] \in {"+", "_"} /\ HexVal(pitchString[3]) > 5)

noteBase(letter) ==
    CASE letter = "C" -> 0 [] letter = "D" -> 2 [] letter = "E" -> 4
      [] letter = "F" -> 5 [] letter = "G" -> 7 [] letter = "A" -> 9
      [] letter = "B" -> 11

\* parsePitchString: the MIDI number, or an error.
parsePitchString(pitchString) ==
    LET second == pitchString[2]
        digit == HexVal(pitchString[3])
        octave == IF second \in {"+", "_"} THEN -digit ELSE digit
        accidental == IF second \in {"#", "+"} THEN 1 ELSE 0
    IN  IF ~isValidPitchString(pitchString) THEN [err |-> TRUE, pitch |-> 0]
        ELSE [err |-> FALSE,
              pitch |-> (octave + 1) * 12 + noteBase(ToUpper(pitchString[1]))
                            + accidental]

isValidVolumeString(volumeString) ==
    /\ Len(volumeString) = 2
    /\ volumeString[1] = "0"
    /\ HexVal(volumeString[2]) >= 0

parseVolumeString(volumeString) ==
    IF ~isValidVolumeString(volumeString) \/ ParseUintHex(volumeString, 4) < 0
    THEN [err |-> TRUE, volume |-> 0]
    ELSE [err |-> FALSE, volume |-> ParseUintHex(volumeString, 4)]

isValidEffectString(effectString) ==
    /\ Len(effectString) = 4
    /\ ParseUintHex(SubSeq(effectString, 1, 2), 8) >= 0
    /\ \/ SubSeq(effectString, 3, 4) = <<".", ".">>
       \/ ParseUintHex(SubSeq(effectString, 3, 4), 8) >= 0

\* The effect ids of the switch in parseEffectString and their types.
KnownEffectIds == {11, 13, 9, 15, 32, 240, 255}

EffectTypeOf(effectId) ==
    CASE effectId = 11 -> EffectJumpToPattern
      [] effectId = 13 -> EffectJumpToNextPattern
      [] effectId \in {9, 15} -> EffectSpeed
      [] effectId = 32 -> EffectNoiseControl
      [] effectId = 240 -> EffectTickRateBpm
      [] effectId = 255 -> EffectStopSong

\* parseEffectString: an Effect, or an error.
parseEffectString(effectString) ==
    LET effectId == ParseUintHex(SubSeq(effectString, 1, 2), 8)
        noValue == SubSeq(effectString, 3, 4) = <<".", ".">>
        wide == IF noValue
                THEN ParseUintHex(SubSeq(effectString, 2, 2), 4) * 256
                ELSE ParseUintHex(SubSeq(effectString, 2, 4), 16)
        narrow == IF noValue THEN 0
                  ELSE ParseUintHex(SubSeq(effectString, 3, 4), 8)
        failure == [err |-> TRUE, effect |-> [Type |-> 0, Value |-> 0]]
    IN  IF ~isValidEffectString(effectString) THEN failure
        ELSE IF effectId >= 192 /\ effectId <= 207
        THEN IF wide < 0 THEN failure
             ELSE [err |-> FALSE,
                   effect |-> [Type |-> EffectTickRateHz, Value |-> wide]]
        ELSE IF effectId \notin KnownEffectIds THEN failure
        ELSE IF narrow < 0 THEN failure
        ELSE [err |-> FALSE,
              effect |-> [Type |-> EffectTypeOf(effectId), Value |-> narrow]]

\* The loop of parseNote over the effect strings from offset i on: the
\* effects found and whether one of them was in error.
RECURSIVE parseEffects(_, _)
parseEffects(s, i) ==
    IF i >= Len(s) - 7 THEN [err |-> FALSE, effects |-> <<>>]
    ELSE LET effectString == SubSeq(s, i + 8, i + 11)
             rest == parseEffects(s, i + 4)
         IN  IF effectString = <<".", ".", ".", ".">> THEN rest
             ELSE IF parseEffectString(effectString).err
             THEN [err |-> TRUE, effects |-> <<>>]
             ELSE IF rest.err THEN rest
             ELSE [err |-> FALSE,
                   effects |-> <<parseEffectString(effectString).effect>>
                                  \o rest.effects]

NoteError == [err |-> TRUE, panicked |-> FALSE, note |-> BlankNote(0), effects |-> <<>>]

\* parseNote on one cell of a row line.
parseNote(noteString) ==
    LET s == SelectSeq(noteString, LAMBDA c : c # " ")
        pitchString == SubSeq(s, 1, 3)
        volumeString == SubSeq(s, 6, 7)
        off == pitchString = <<"O", "F", "F">>
        hasPitch == ~off /\ pitchString # <<".", ".", ".">>
        hasVolume == ~off /\ volumeString # <<".", ".">>
    IN  IF GoRem(Len(s) - 11, 4) # 0 THEN NoteError
        ELSE IF Len(s) < 7 THEN [NoteError EXCEPT !.panicked = TRUE]
        ELSE IF hasPitch /\ parsePitchString(pitchString).err THEN NoteError
        ELSE IF hasVolume /\ parseVolumeString(volumeString).err THEN NoteError
        ELSE IF parseEffects(s, 0).err THEN NoteError
        ELSE [err |-> FALSE, panicked |-> FALSE,
              note |-> [Pitch |-> IF hasPitch
                                  THEN parsePitchString(pitchString).pitch
                                  ELSE 0,
                        HasPitch |-> hasPitch,
                        Volume |-> IF hasVolume
                                   THEN parseVolumeString(volumeString).volume
                                   ELSE 0,
                        HasVolume |-> hasVolume,
                        Off |-> off,
                        Channel |-> 0],
              effects |-> parseEffects(s, 0).effects]

\* The loop over the fields of a row line from cell i on (the address field
\* is not among the cells): the row built so far and the warnings added.
RECURSIVE parseCells(_, _, _)
parseCells(acc, cells, i) ==
    IF i > Len(cells) \/ acc.panicked THEN acc
    ELSE LET r == parseNote(cells[i])
         IN  parseCells(
                 IF r.panicked THEN [acc EXCEPT !.panicked = TRUE]
                 ELSE IF r.err
                 THEN [acc EXCEPT !.row.Notes = Append(@, BlankNote(i - 1)),
                                  !.warned = @ + 1]
                 ELSE [acc EXCEPT !.row.Notes =
                                      Append(@, [r.note EXCEPT !.Channel = i - 1]),
                                  !.row.Effects = @ \o r.effects],
                 cells, i + 1)

\* p.addWarning: a ParseWarning with the current line number.
addWarning(p, message) ==
    [p EXCEPT !.warnings = Append(@, [Line |-> p.lineNumber, Message |-> message])]

RECURSIVE addWarnings(_, _, _)
addWarnings(p, message, n) ==
    IF n = 0 THEN p ELSE addWarnings(addWarning(p, message), message, n - 1)

\* The outcome of one line: the parser afterwards and the fatal error
\* parseInternal returns, "none" when it reads on.
ReadOn(p) == [p |-> p, fatal |-> "none"]
Fatal(p, message) == [p |-> p, fatal |-> message]

\* Row parsing (state "subsongs", parsingRows): any line but an order header
\* is split at '|' and appended to the current subsong as a Row.
appendRow(p, line) ==
    LET parsed == parseCells([row |-> [Notes |-> <<>>, Effects |-> <<>>],
                              warned |-> 0, panicked |-> FALSE],
                             line.cells, 1)
        n == Len(p.song.Subsongs)
    IN  IF n = 0 THEN Fatal(p, "no current subsong")
        ELSE IF parsed.panicked THEN Fatal(p, "panic")
        ELSE ReadOn([addWarnings(p, "error parsing note", parsed.warned)
                        EXCEPT !.song.Subsongs[n].Rows = Append(@, parsed.row)])

\* A new Subsong with the defaults of the header branch.
NewSubsong(index) ==
    [Index |-> index, TickRate |-> [num |-> 50, den |-> 1], PatternLength |-> 0,
     Speeds |-> <<3>>, TimeBase |-> 0, Rows |-> <<>>]

\* The keys of st.Ctx the header branch checks and resets.
CheckedKeys == {"parsingRows", "tickRate", "speeds", "patternLength"}

\* A line "## <index>: <name>" in state "subsongs".
subsongHeader(p, line) ==
    LET newIdx == Len(p.song.Subsongs)
        q == IF line.idx # newIdx THEN addWarning(p, "expected subsong index") ELSE p
        missing == {k \in CheckedKeys : ~q.Ctx[k]}
        reset == [k \in DOMAIN q.Ctx |->
                     IF q.Ctx.parsingSubsong /\ k \in CheckedKeys
                     THEN FALSE ELSE q.Ctx[k]]
    IN  IF q.Ctx.parsingSubsong # q.Ctx.parsingRows
        THEN ReadOn(addWarning(q, "unexpected text when parsing subsong"))
        ELSE IF q.Ctx.parsingSubsong /\ q.Ctx.parsingMetadata
        THEN Fatal(q, "didn't finish parsing subsong metadata")
        ELSE IF q.Ctx.parsingSubsong /\ q.Ctx.parsingOrders
        THEN Fatal(q, "didn't finish parsing subsong orders")
        ELSE IF q.Ctx.parsingSubsong /\ missing # {}
        THEN Fatal([q EXCEPT !.Ctx = reset], "missing fields in Subsongs section")
        ELSE ReadOn([q EXCEPT
                 !.Ctx = [reset EXCEPT !.parsingSubsong = TRUE,
                                       !.parsingMetadata = TRUE,
                                       !.parsingOrders = FALSE,
                                       !.parsingRows = FALSE],
                 !.song.Subsongs = Append(@, NewSubsong(newIdx))])

\* A line with the prefix "## " in state "subsongs".
sectionLine(p, line) ==
    IF line.kind = "## Patterns"
    THEN IF p.Ctx.parsingOrders
         THEN ReadOn([p EXCEPT !.Ctx.parsingOrders = FALSE,
                               !.Ctx.parsingRows = TRUE])
         ELSE ReadOn(p)
    ELSE IF line.kind = "## subsong" THEN subsongHeader(p, line)
    ELSE ReadOn(addWarning(p, "unexpected text when looking for subsong start"))

\* A value token of a list element: a decimal integer v, or not a number.
Number(v) == [isNumber |-> TRUE, v |-> v]
\* parseSpeedsList on the tokens of the value.
parseSpeedsList(tokens) ==
    IF Len(tokens) = 0 THEN [err |-> TRUE, speeds |-> <<>>]
    ELSE IF Len(tokens) > 1 THEN [err |-> TRUE, speeds |-> <<>>]
    ELSE IF ~tokens[1].isNumber THEN [err |-> TRUE, speeds |-> <<>>]
    ELSE IF tokens[1].v <= 0 \/ tokens[1].v >= 256 THEN [err |-> TRUE, speeds |-> <<>>]
    ELSE [err |-> FALSE, speeds |-> <<tokens[1].v>>]

\* A single decimal number as the whole value.
OneNumber(tokens) == Len(tokens) = 1 /\ tokens[1].isNumber

\* A line in the metadata sub-state of a subsong.
metadataLine(p, line) ==
    LET n == Len(p.song.Subsongs)
        value == line.value
    IN  IF line.kind = "orders:"
        THEN ReadOn([p EXCEPT !.Ctx.parsingMetadata = FALSE,
                              !.Ctx.parsingOrders = TRUE])
        ELSE IF line.kind # "list element"
        THEN Fatal(p, "error parsing list element")
        ELSE IF n = 0 THEN Fatal(p, "no current subsong")
        ELSE IF line.key = "tick rate"
        THEN IF ~OneNumber(value)
             THEN Fatal([p EXCEPT !.Ctx.tickRate = TRUE], "tick rate")
             ELSE ReadOn([p EXCEPT !.Ctx.tickRate = TRUE,
                                   !.song.Subsongs[n].TickRate =
                                       [num |-> value[1].v, den |-> 1]])
        ELSE IF line.key = "speeds"
        THEN IF parseSpeedsList(value).err
             THEN Fatal([p EXCEPT !.Ctx.speeds = TRUE], "speeds")
             ELSE ReadOn([p EXCEPT !.Ctx.speeds = TRUE,
                                   !.song.Subsongs[n].Speeds =
                                       parseSpeedsList(value).speeds])
        ELSE IF line.key = "time base"
        THEN IF ~OneNumber(value) THEN Fatal(p, "time base")
             ELSE ReadOn([p EXCEPT !.song.Subsongs[n].TimeBase = value[1].v])
        ELSE IF line.key = "pattern length"
        THEN IF ~OneNumber(value) \/ value[1].v \notin 0..255
             THEN Fatal([p EXCEPT !.Ctx.patternLength = TRUE], "pattern length")
             ELSE ReadOn([p EXCEPT !.Ctx.patternLength = TRUE,
                                   !.song.Subsongs[n].PatternLength = value[1].v])
        ELSE IF line.key = "virtual tempo" THEN ReadOn(p)
        ELSE ReadOn(addWarning(p, "unknown option"))

\* The part of case "subsongs" after row parsing.
afterRow(r, line) ==
    IF r.fatal # "none" THEN r
    ELSE IF line.kind \in {"## Patterns", "## subsong", "## other"}
    THEN sectionLine(r.p, line)
    ELSE IF r.p.Ctx.parsingMetadata THEN metadataLine(r.p, line)
    ELSE r

\* One turn of the scanner loop of parseInternal in state "subsongs", for a
\* line that is not blank.
subsongsLine(p, line) ==
    LET q == [p EXCEPT !.lineNumber = @ + 1]
    IN  IF line.kind = "# Subsongs" THEN ReadOn(q)
        ELSE IF q.Ctx.parsingRows /\ line.kind = "----- ORDER" THEN ReadOn(q)
        ELSE IF q.Ctx.parsingRows THEN afterRow(appendRow(q, line), line)
        ELSE afterRow(ReadOn(q), line)

\* parseNmos as a whole: the row loop run to its end.
RECURSIVE runRows(_, _, _)
runRows(l, ps, mode) ==
    IF l.pc = "rows" /\ l.rowIndex < Len(ps.Subsongs[1].Rows)
    THEN runRows(RowTail(RowBody(l, ps, mode)), ps, mode)
    ELSE l

afterRows(l) == IF l.pc = "error" THEN l ELSE LowerEpilogue(l)

parseNmos(ps, mode) ==
    afterRows(runRows(LowerPrologue(LowerStartState, ps, mode), ps, mode))

\* What Parse returns once parseNmos is done: an error and no song, or the
\* song.
Returned(l) ==
    IF l.pc = "error"
    THEN [err |-> l.err, song |-> <<>>]
    ELSE [err |-> "none", song |-> <<l.song>>]

\* Mutant: the EOF check tests the state only, not the sub-state.
ParseAtEOF_NoRowsCheck(p, mode) ==
    IF p.state # "subsongs"
    THEN [err |-> "unexpected EOF", song |-> <<>>]
    ELSE Returned(parseNmos(p.song, mode))

\* Parse(0) from the end of input on: the EOF check of parseInternal, then
\* parseNmos on the parsed song.
ParseAtEOF(p, mode) ==
    IF ~(p.state = "subsongs" /\ p.Ctx.parsingSubsong /\ p.Ctx.parsingRows)
    THEN [err |-> "unexpected EOF", song |-> <<>>]
    ELSE Returned(parseNmos(p.song, mode))

(***************************************************************************)
(* parseInternal before the state "subsongs".  A Parser of this part has,  *)
(* besides the fields above, info (the context of "song information") and  *)
(* chips (the context of "sound chips").  Song.Name, Author and Album are   *)
(* strings the states never test and are left out.                         *)
(***************************************************************************)
\* case "signature"
signatureLine(p, line) ==
    IF line.kind = "signature" THEN ReadOn([p EXCEPT !.state = "version"])
    ELSE ReadOn(addWarning(p, "unexpected text when looking for signature"))

\* case "version": "generated by Furnace <name> (<version>)".
versionLine(p, line) ==
    IF line.kind # "version" THEN Fatal(p, "unexpected text when looking for version")
    ELSE IF ~OneNumber(line.value) THEN Fatal(p, "invalid integer in version")
    ELSE ReadOn([(IF line.value[1].v # 232
                  THEN addWarning(p, "version not supported") ELSE p)
                    EXCEPT !.song.Version = line.value[1].v,
                           !.info = [name |-> FALSE, author |-> FALSE,
                                     tuning |-> FALSE],
                           !.state = "song information"])

\* Mutant: the marker "# Sound Chips" ends the section whatever was seen.
songInformationLine_NoMissingCheck(p, line) ==
    IF line.kind = "# Song Information" THEN ReadOn(p)
    ELSE IF line.kind = "# Sound Chips"
    THEN ReadOn([p EXCEPT !.state = "sound chips"])
    ELSE IF line.kind # "list element"
    THEN Fatal(p, "error parsing list element")
    ELSE IF line.key \in {"name", "author"}
    THEN ReadOn([p EXCEPT !.info[line.key] = TRUE])
    ELSE IF line.key = "tuning"
    THEN IF ~OneNumber(line.value) THEN Fatal(p, "tuning")
         ELSE ReadOn([p EXCEPT !.song.Tuning = line.value[1].v,
                               !.info.tuning = TRUE])
    ELSE ReadOn(p)

\* case "song information"
songInformationLine(p, line) ==
    IF line.kind = "# Song Information" THEN ReadOn(p)
    ELSE IF line.kind = "# Sound Chips"
    THEN IF \E key \in DOMAIN p.info : ~p.info[key]
         THEN Fatal(p, "missing fields in Song Information section")
         ELSE ReadOn([p EXCEPT !.chips = [parsingChip |-> FALSE,
                                          parsingFlags |-> FALSE,
                                          id |-> FALSE, flags |-> FALSE,
                                          chipType |-> FALSE,
                                          customClock |-> FALSE],
                               !.state = "sound chips"])
    ELSE IF line.kind # "list element"
    THEN Fatal(p, "error parsing list element")
    ELSE IF line.key \in {"name", "author"}
    THEN ReadOn([p EXCEPT !.info[line.key] = TRUE])
    ELSE IF line.key = "tuning"
    THEN IF ~OneNumber(line.value) THEN Fatal(p, "tuning")
         ELSE ReadOn([p EXCEPT !.song.Tuning = line.value[1].v,
                               !.info.tuning = TRUE])
    ELSE IF line.key \in {"album", "system", "instruments", "wavetables", "samples"}
    THEN ReadOn(p)
    ELSE ReadOn(addWarning(p, "unknown option in Song Information section"))

\* The loop over st.Ctx that collects the missing keys of the chip just
\* parsed and resets every seen flag.
chipMissing(p) == \E key \in {"id", "flags", "chipType", "customClock"} : ~p.chips[key]
resetSeen(p) ==
    [p EXCEPT !.chips = [key \in DOMAIN @ |->
                            IF key \in {"parsingChip", "parsingFlags"}
                            THEN @[key] ELSE FALSE]]

\* case "sound chips".  The value token Number(4) of an "id" line stands for
\* the text 04.  In the branch of "- TI SN76489" parsingFlags is false, so
\* its warning about unfinished flags cannot be given.
soundChipsLine(p, line) ==
    LET n == Len(p.song.SoundChips)
        q == IF p.chips.parsingFlags
             THEN addWarning(p, "didn't finish parsing chip") ELSE p
        r == IF p.chips.parsingChip THEN resetSeen(q) ELSE q
        c == IF p.chips.parsingChip THEN resetSeen(p) ELSE p
    IN  IF line.kind = "# Sound Chips" THEN ReadOn(p)
        ELSE IF line.kind = "# Instruments"
        THEN IF p.chips.parsingChip /\ chipMissing(p)
             THEN Fatal(r, "missing fields in Sound Chips section")
             ELSE IF n = 0 THEN Fatal(r, "no sound chips were found")
             ELSE ReadOn([r EXCEPT !.state = "instruments/wavetables/samples"])
        ELSE IF p.chips.parsingFlags
        THEN IF line.kind = "fence"
             THEN ReadOn([p EXCEPT !.chips.parsingFlags = FALSE])
             ELSE IF line.kind # "flag" THEN Fatal(p, "invalid chip flag")
             ELSE IF n = 0 THEN Fatal(p, "parsingFlags true but no current chip")
             ELSE IF line.key = "chipType"
             THEN IF line.value # <<Number(4)>> THEN Fatal(p, "chip type")
                  ELSE ReadOn([p EXCEPT !.chips.chipType = TRUE])
             ELSE IF line.key = "customClock"
             THEN IF line.value = <<Number(4000000)>>
                  THEN ReadOn([p EXCEPT !.song.SoundChips[n].ClockDiv = FALSE,
                                        !.chips.customClock = TRUE])
                  ELSE IF line.value = <<Number(2000000)>>
                  THEN ReadOn([p EXCEPT !.song.SoundChips[n].ClockDiv = TRUE,
                                        !.chips.customClock = TRUE])
                  ELSE ReadOn([addWarning(p, "custom clock")
                                  EXCEPT !.chips.customClock = TRUE])
             ELSE IF line.key \in {"clockSel", "noEasyNoise", "noPhaseReset"}
             THEN ReadOn(p)
             ELSE ReadOn(addWarning(p, "unknown chip flag"))
        ELSE IF line.kind = "- TI SN76489"
        THEN IF p.chips.parsingChip /\ chipMissing(p)
             THEN Fatal(c, "missing fields in Sound Chips section")
             ELSE ReadOn([c EXCEPT !.chips.parsingChip = TRUE,
                                   !.chips.parsingFlags = FALSE,
                                   !.song.SoundChips =
                                       Append(@, [ClockDiv |-> FALSE])])
        ELSE IF line.kind = "fence"
        THEN ReadOn([p EXCEPT !.chips.parsingFlags = TRUE])
        ELSE IF line.kind # "list element"
        THEN Fatal(p, "error parsing list element")
        ELSE IF n = 0 THEN Fatal(p, "no current chip while parsing")
        ELSE IF line.key = "id"
        THEN IF line.value # <<Number(4)>>
             THEN Fatal([p EXCEPT !.chips.id = TRUE], "expected chip id 04")
             ELSE ReadOn([p EXCEPT !.chips.id = TRUE])
        ELSE IF line.key = "flags"
        THEN ReadOn([p EXCEPT !.chips.flags = TRUE])
        ELSE IF line.key \in {"volume", "panning", "front/rear"} THEN ReadOn(p)
        ELSE ReadOn(addWarning(p, "unknown option in Sound Chips section"))

\* case "instruments/wavetables/samples"
instrumentsLine(p, line) ==
    IF line.kind = "# Subsongs"
    THEN ReadOn([p EXCEPT !.Ctx = [key \in DOMAIN @ |-> FALSE],
                          !.state = "subsongs"])
    ELSE ReadOn(p)

\* One turn of the scanner loop of parseInternal, for a line that is not
\* blank: the switch on p.state.
parseLine(p, line) ==
    LET q == [p EXCEPT !.lineNumber = @ + 1]
    IN  IF p.state = "signature" THEN signatureLine(q, line)
        ELSE IF p.state = "version" THEN versionLine(q, line)
        ELSE IF p.state = "song information" THEN songInformationLine(q, line)
        ELSE IF p.state = "sound chips" THEN soundChipsLine(q, line)
        ELSE IF p.state = "instruments/wavetables/samples"
        THEN instrumentsLine(q, line)
        ELSE subsongsLine(p, line)

(***************************************************************************)
(* The resting value of each group of variables: a specification leaves    *)
(* the groups it does not use at rest.                                     *)
(***************************************************************************)
FrameIdle ==
    /\ frame = EmptyFrame
    /\ lastCall = [op |-> "none", a |-> 0, b |-> 0, err |-> FALSE]
    /\ tempoSets = 0

\* FindBestRate has not been called: no result yet.
NotCalled == <<>>

SolverIdle ==
    /\ target = [num |-> 1, den |-> 1]
    /\ conv = "wrap"
    /\ solved = NotCalled

\* The zero value of an NmosSong, not compiled.
CompileIdle ==
    /\ song = [InitialTempo |-> 0, Frames |-> <<>>, LoopTarget |-> 0]
    /\ rom = <<>>

\* parseNmos has not been called: no parsed song, no row processed.
LowerIdle ==
    /\ parsedSong = [Tuning |-> 0, SoundChips |-> <<>>, Subsongs |-> <<>>]
    /\ low = LowerStartState
    /\ fates = <<>>

\* No Parser has been made.
ParseIdle ==
    /\ parser = [used |-> FALSE]
    /\ returned = <<>>
    /\ input = [unknownEffect |-> FALSE, keys |-> <<>>, rows |-> <<>>,
               stray |-> FALSE, phase |-> "none"]

(***************************************************************************)
(* Specification SpecFrame: one Frame under any sequence of setter calls   *)
(* and assignments to its public FrameDelay field.                         *)
(***************************************************************************)
\* What a step of SpecFrame leaves alone.
FrameRest == UNCHANGED <<SolverVars, CompileVars, LowerVars, ParseVars, applied>>

CallSetNewTempo(t) ==
    LET r == SetNewTempo(frame, t)
    IN  /\ frame' = r.f
        /\ lastCall' = [op |-> "SetNewTempo", a |-> t, b |-> 0, err |-> r.err]
        /\ tempoSets' = IF r.err THEN tempoSets ELSE tempoSets + 1
        /\ FrameRest

CallSetSquarePeriod(ch, p) ==
    LET r == SetSquarePeriod(frame, ch, p)
    IN  /\ frame' = r.f
        /\ lastCall' = [op |-> "SetSquarePeriod", a |-> ch, b |-> p, err |-> r.err]
        /\ UNCHANGED tempoSets
        /\ FrameRest

CallSetAttenuation(ch, a) ==
    LET r == SetAttenuation(frame, ch, a)
    IN  /\ frame' = r.f
        /\ lastCall' = [op |-> "SetAttenuation", a |-> ch, b |-> a, err |-> r.err]
        /\ UNCHANGED tempoSets
        /\ FrameRest

CallSetNoiseControl(m, rt) ==
    LET r == SetNoiseControl(frame, m, rt)
    IN  /\ frame' = r.f
        /\ lastCall' = [op |-> "SetNoiseControl", a |-> m, b |-> rt, err |-> r.err]
        /\ UNCHANGED tempoSets
        /\ FrameRest

AssignFrameDelay(d) ==
    /\ frame' = [frame EXCEPT !.FrameDelay = d]
    /\ lastCall' = [op |-> "FrameDelay", a |-> d, b |-> 0, err |-> FALSE]
    /\ UNCHANGED tempoSets
    /\ FrameRest

FrameInit ==
    FrameIdle /\ SolverIdle /\ CompileIdle /\ LowerIdle /\ ParseIdle /\ applied = <<>>

FrameNext ==
    \/ \E t \in {0, maxTempo, maxTempo + 1} : CallSetNewTempo(t)
    \/ \E ch \in {0, 2, 3}, p \in {maxSquarePeriod, maxSquarePeriod + 1} :
           CallSetSquarePeriod(ch, p)
    \/ \E ch \in {0, 3, 4}, a \in {maxAttenuation, maxAttenuation + 1} :
           CallSetAttenuation(ch, a)
    \/ \E m \in {WhiteNoise, WhiteNoise + 1},
          rt \in {Channel3Noise, Channel3Noise + 1} :
           CallSetNoiseControl(m, rt)
    \/ \E d \in {0, 255} : AssignFrameDelay(d)

SpecFrame == FrameInit /\ [][FrameNext]_vars

(***************************************************************************)
(* Specification SpecFill: one Frame filled by setter calls that succeed,  *)
(* up to the eight commands a frame can hold.  The periods are set in the  *)
(* order of their channels and so are the attenuations, as the loop over   *)
(* row.Notes does; periods, attenuations, the noise control, the tempo and *)
(* the delay come in any order.                                            *)
(***************************************************************************)
\* The number of commands of type t in the frame.
CountOf(t) == Len(SelectSeq(frame.commands, LAMBDA c : c.commandType = t))

FillNext ==
    \/ CallSetNewTempo(maxTempo) /\ ~lastCall'.err
    \/ \E ch \in 0..2 :
           /\ ch = CountOf(SetSquarePeriodCommand)
           /\ CallSetSquarePeriod(ch, maxSquarePeriod)
    \/ \E ch \in 0..3 :
           /\ ch = CountOf(SetAttenuationCommand)
           /\ CallSetAttenuation(ch, maxAttenuation)
    \/ CallSetNoiseControl(WhiteNoise, Channel3Noise) /\ ~lastCall'.err
    \/ AssignFrameDelay(255) /\ frame.FrameDelay = 0

SpecFill == FrameInit /\ [][FillNext]_vars

(***************************************************************************)
(* Specification SpecSolver: FindBestRate applied to a target rate         *)
(* num/den.                                                                *)
(***************************************************************************)
MaxRateNum == 490
MaxRateDen == 3

TargetRates == {[num |-> n, den |-> d] : n \in -2..MaxRateNum, d \in 0..MaxRateDen}

SolverInit ==
    /\ target \in TargetRates
    /\ conv \in ConvModes
    /\ solved = NotCalled
    /\ FrameIdle
    /\ CompileIdle
    /\ LowerIdle
    /\ ParseIdle
    /\ applied = <<>>

CallFindBestRate ==
    /\ solved = NotCalled
    /\ solved' = <<FindBestRate(target, conv)>>
    /\ UNCHANGED <<target, conv>>
    /\ UNCHANGED <<FrameVars, CompileVars, LowerVars, ParseVars, applied>>

SolverNext == CallFindBestRate

SpecSolver == SolverInit /\ [][SolverNext]_vars

(***************************************************************************)
(* Specification SpecCompile: a song whose frames are appended empty or    *)
(* full and completed through the setters, then compiled.                  *)
(***************************************************************************)
MaxFrames == 2
MaxCompiles == 2

\* A frame carrying every command a frame can hold: a period for each
\* square channel, an attenuation for each channel and a noise control.
FullFrame ==
    LET f1 == SetSquarePeriod(EmptyFrame, 0, 1).f
        f2 == SetAttenuation(f1, 0, 0).f
        f3 == SetSquarePeriod(f2, 1, 256).f
        f4 == SetAttenuation(f3, 1, 7).f
        f5 == SetSquarePeriod(f4, 2, maxSquarePeriod).f
        f6 == SetAttenuation(f5, 2, maxAttenuation).f
        f7 == SetNoiseControl(f6, WhiteNoise, HighNoise).f
    IN  SetAttenuation(f7, 3, 2).f
CompileInit ==
    /\ song \in [InitialTempo : {maxTempo, maxTempo + 1}, Frames : {<<>>},
                 LoopTarget : {0, 1}]
    /\ rom = <<>>
    /\ FrameIdle
    /\ SolverIdle
    /\ LowerIdle
    /\ ParseIdle
    /\ applied = <<>>

\* What a step of SpecCompile leaves alone.
CompileRest == UNCHANGED <<FrameVars, SolverVars, LowerVars, ParseVars, applied>>

\* song.Frames = append(song.Frames, frame) for a frame b whose FrameDelay
\* and LoopToTarget fields were assigned d and l.
AppendFrame(b, d, l) ==
    /\ rom = <<>>
    /\ Len(song.Frames) < MaxFrames
    /\ song' = [song EXCEPT !.Frames =
                   Append(@, [b EXCEPT !.FrameDelay = d, !.LoopToTarget = l])]
    /\ UNCHANGED rom
    /\ CompileRest

\* A setter call on the frame being built (the last one); r is its result.
OnLastFrame(r) ==
    /\ song' = [song EXCEPT !.Frames[Len(song.Frames)] = r.f]
    /\ UNCHANGED rom
    /\ CompileRest

SongSetNewTempo(t) ==
    /\ rom = <<>>
    /\ Len(song.Frames) > 0
    /\ OnLastFrame(SetNewTempo(song.Frames[Len(song.Frames)], t))

SongSetSquarePeriod(ch, p) ==
    /\ rom = <<>>
    /\ Len(song.Frames) > 0
    /\ OnLastFrame(SetSquarePeriod(song.Frames[Len(song.Frames)], ch, p))

SongSetAttenuation(ch, a) ==
    /\ rom = <<>>
    /\ Len(song.Frames) > 0
    /\ OnLastFrame(SetAttenuation(song.Frames[Len(song.Frames)], ch, a))

\* rom, err := song.Compile(), called again on the same song up to
\* MaxCompiles times; each result is kept in rom.
CallCompile ==
    /\ Len(rom) < MaxCompiles
    /\ rom' = Append(rom, Compile(song))
    /\ song' = SongAfterCompile(song)
    /\ CompileRest

CompileNext ==
    \/ \E b \in {EmptyFrame, FullFrame},
          sh \in {<<0, FALSE>>, <<3, FALSE>>, <<0, TRUE>>} :
           AppendFrame(b, sh[1], sh[2])
    \/ \E t \in {5} : SongSetNewTempo(t)
    \/ \E x \in {<<0, 1023>>} : SongSetSquarePeriod(x[1], x[2])
    \/ \E x \in {<<3, 15>>} : SongSetAttenuation(x[1], x[2])
    \/ CallCompile

SpecCompile == CompileInit /\ [][CompileNext]_vars

(***************************************************************************)
(* Specification SpecLower: parseNmos on subsong 0 of a parsed song, one   *)
(* step per turn of its row loop.  fates records, for every row the loop   *)
(* has processed, what the turn did to song.Frames.                        *)
(***************************************************************************)
MaxRows == 3

Row(effects, notes) == [Notes |-> notes, Effects |-> effects]

NoNotes == <<BlankNote(0), BlankNote(1), BlankNote(2), BlankNote(3)>>

EffectRow(type, value) == Row(<<[Type |-> type, Value |-> value]>>, NoNotes)

RowKinds ==
    {\* a blank row
     Row(<<>>, NoNotes),
     \* a pitch (the A of furnace octave 2, 440 Hz once shifted) in channel 0
     Row(<<>>, <<[BlankNote(0) EXCEPT !.HasPitch = TRUE, !.Pitch = 45],
                 BlankNote(1), BlankNote(2), BlankNote(3)>>),
     EffectRow(EffectJumpToPattern, 0), EffectRow(EffectJumpToPattern, 1),
     EffectRow(EffectJumpToNextPattern, 0), EffectRow(EffectStopSong, 0),
     EffectRow(EffectTickRateHz, 60),
     \* a backward jump and a StopSong in one row
     Row(<<[Type |-> EffectJumpToPattern, Value |-> 0],
           [Type |-> EffectStopSong, Value |-> 0]>>, NoNotes),
     \* the cell 2002: NoiseControl with the effect value 0x02
     EffectRow(EffectNoiseControl, 2),
     \* a D-4 pitch (12 * 5 + 2) in channel 3
     Row(<<>>, <<BlankNote(0), BlankNote(1), BlankNote(2),
                 [BlankNote(3) EXCEPT !.HasPitch = TRUE, !.Pitch = 62]>>)}

\* Rows with nothing but a note in channel ch: the cells "... .. 0A",
\* "... .. 03", "A-2 .. ..", "A-2 .. 07" and "OFF .. ..".
NoteRowKinds(ch) ==
    {Row(<<>>, [c \in 1..4 |-> IF c = ch + 1 THEN note ELSE BlankNote(c - 1)]) :
        note \in {[BlankNote(ch) EXCEPT !.HasVolume = TRUE, !.Volume = 10],
                  [BlankNote(ch) EXCEPT !.HasVolume = TRUE, !.Volume = 3],
                  [BlankNote(ch) EXCEPT !.HasPitch = TRUE, !.Pitch = 45],
                  [BlankNote(ch) EXCEPT !.HasPitch = TRUE, !.Pitch = 45,
                                        !.HasVolume = TRUE, !.Volume = 7],
                  [BlankNote(ch) EXCEPT !.Off = TRUE]}}

\* The pitches A-0 and A-2: at the tuning 440 their periods are 1136, which
\* is above maxSquarePeriod, and 284.
SquarePitches == {21, 45}

\* The effects 0F06, C032, F078 and C3E8 (TickRateHz 1000, a rate the
\* solver reaches with speed 6 and not with speed 3).
TempoEffects ==
    {[Type |-> EffectSpeed, Value |-> 6], [Type |-> EffectTickRateHz, Value |-> 50],
     [Type |-> EffectTickRateBpm, Value |-> 120],
     [Type |-> EffectTickRateHz, Value |-> 1000]}

\* Rows of one tempo effect: the cells 0F06 and 0F04 (Speed), C032
\* (TickRateHz 50) and F078 (TickRateBpm 120, 48 ticks per second).
TempoRowKinds ==
    {Row(<<>>, NoNotes), EffectRow(EffectSpeed, 6), EffectRow(EffectSpeed, 4),
     EffectRow(EffectTickRateHz, 50), EffectRow(EffectTickRateBpm, 120)}

\* Pitches of channel 3 under a preset rate: parsePitchString gives -12 for
\* C_2, -11 for C+2, -10 for D_2, -9 for D+2, 60 for C-4, 61 for C#4 and 63
\* for D#4.
NoisePitches == {-12, -11, -10, -9, 60, 61, 63}

ParsedSongs ==
    {[Tuning |-> 440, SoundChips |-> <<[ClockDiv |-> cd]>>,
      Subsongs |-> <<[TickRate |-> tr, PatternLength |-> pl, Speeds |-> <<3>>,
                      TimeBase |-> 0, Rows |-> rows]>>] :
        cd \in BOOLEAN,
        tr \in {[num |-> 60, den |-> 1], [num |-> 375, den |-> 1]},
        pl \in {1, 2},
        rows \in UNION {[1..n -> RowKinds] : n \in 0..MaxRows}}
    \cup
    \* songs of at most one row at 1000 ticks per second, a rate no tempo
    \* reaches with speed 3
    {[Tuning |-> 440, SoundChips |-> <<[ClockDiv |-> cd]>>,
      Subsongs |-> <<[TickRate |-> [num |-> 1000, den |-> 1],
                      PatternLength |-> 1, Speeds |-> <<3>>,
                      TimeBase |-> 0, Rows |-> rows]>>] :
        cd \in BOOLEAN, rows \in UNION {[1..n -> RowKinds] : n \in 0..1}}
    \cup
    \* the cell 2002 and, on the row below it, a pitch in channel 3
    {[Tuning |-> 440, SoundChips |-> <<[ClockDiv |-> FALSE]>>,
      Subsongs |-> <<[TickRate |-> [num |-> 60, den |-> 1],
                      PatternLength |-> 2, Speeds |-> <<3>>,
                      TimeBase |-> 0,
                      Rows |-> <<EffectRow(EffectNoiseControl, 2),
                                 Row(<<>>, <<BlankNote(0), BlankNote(1),
                                             BlankNote(2),
                                             [BlankNote(3) EXCEPT
                                                 !.HasPitch = TRUE,
                                                 !.Pitch = pitch]>>)>>]>>] :
        pitch \in NoisePitches}
    \cup
    \* rows with a note in one channel only
    {[Tuning |-> 440, SoundChips |-> <<[ClockDiv |-> FALSE]>>,
      Subsongs |-> <<[TickRate |-> [num |-> 60, den |-> 1],
                      PatternLength |-> 1, Speeds |-> <<3>>,
                      TimeBase |-> 0, Rows |-> rows]>>] :
        rows \in UNION {[1..n -> NoteRowKinds(ch)] : n \in 0..MaxRows,
                                                      ch \in {0, 3}}}
    \cup
    \* a row with a pitch in channel 2 and in channel 3, the first row or
    \* below a NoiseControl effect (the cells 2011 and 2002)
    {[Tuning |-> 440, SoundChips |-> <<[ClockDiv |-> FALSE]>>,
      Subsongs |-> <<[TickRate |-> [num |-> 60, den |-> 1],
                      PatternLength |-> 1, Speeds |-> <<3>>,
                      TimeBase |-> 0,
                      Rows |-> above \o
                          <<Row(<<>>, <<BlankNote(0), BlankNote(1),
                                       [BlankNote(2) EXCEPT !.HasPitch = TRUE,
                                                            !.Pitch = p2],
                                       [BlankNote(3) EXCEPT !.HasPitch = TRUE,
                                                            !.Pitch = p3]>>)>>]>>] :
        above \in {<<>>, <<EffectRow(EffectNoiseControl, 17)>>,
                         <<EffectRow(EffectNoiseControl, 2)>>},
        p2 \in SquarePitches, p3 \in SquarePitches}
    \cup
    \* slow songs: the base frame delay is 85 at 17/12 ticks per second, 86
    \* at 7/5 and 181 at 2/3
    {[Tuning |-> 440, SoundChips |-> <<[ClockDiv |-> FALSE]>>,
      Subsongs |-> <<[TickRate |-> [num |-> slow[1], den |-> 1],
                      PatternLength |-> 1, Speeds |-> <<slow[2]>>,
                      TimeBase |-> 0, Rows |-> rows]>>] :
        slow \in {<<17, 12>>, <<7, 5>>, <<2, 3>>},
        rows \in UNION {[1..n -> {Row(<<>>, NoNotes),
                                  Row(<<>>, <<[BlankNote(0) EXCEPT
                                                  !.HasPitch = TRUE,
                                                  !.Pitch = 45],
                                              BlankNote(1), BlankNote(2),
                                              BlankNote(3)>>)}] :
                           n \in 0..MaxRows}}
    \cup
    \* one row with two tempo effects
    {[Tuning |-> 440, SoundChips |-> <<[ClockDiv |-> FALSE]>>,
      Subsongs |-> <<[TickRate |-> [num |-> 60, den |-> 1],
                      PatternLength |-> 1, Speeds |-> speeds,
                      TimeBase |-> 0,
                      Rows |-> <<Row(<<first, second>>, NoNotes)>>]>>] :
        speeds \in {<<3>>, <<3, 6>>},
        first \in TempoEffects, second \in TempoEffects}
    \cup
    \* rows of tempo effects, in subsongs of one speed or two and of time
    \* base 0 or 1
    {[Tuning |-> 440, SoundChips |-> <<[ClockDiv |-> FALSE]>>,
      Subsongs |-> <<[TickRate |-> [num |-> 60, den |-> 1],
                      PatternLength |-> 1, Speeds |-> speeds,
                      TimeBase |-> tb, Rows |-> rows]>>] :
        speeds \in {<<3>>, <<3, 6>>}, tb \in {0, 1},
        rows \in UNION {[1..n -> TempoRowKinds] : n \in 0..MaxRows}}

LowerInit ==
    /\ parsedSong \in ParsedSongs
    /\ low = LowerStartState
    /\ fates = <<>>
    /\ conv \in ConvModes
    /\ target = [num |-> 1, den |-> 1]
    /\ solved = NotCalled
    /\ FrameIdle
    /\ CompileIdle
    /\ ParseIdle
    /\ applied = <<>>

\* What a step of SpecLower leaves alone.
LowerRest == UNCHANGED <<FrameVars, SolverVars, CompileVars, ParseVars, applied, parsedSong>>

\* The Frame Clock cycles the frames of a song take when played once in
\* order: frame_delay + 1 each; a frame with the loop bit executes nothing.
RECURSIVE Cycles(_)
Cycles(frames) ==
    IF frames = <<>> THEN 0
    ELSE (IF Head(frames).LoopToTarget THEN 0 ELSE Head(frames).FrameDelay + 1)
         + Cycles(Tail(frames))

\* What the turn from l to n did with row l.rowIndex.
FateOf(l, n) ==
    LET appended == SubSeq(n.song.Frames, Len(l.song.Frames) + 1,
                           Len(n.song.Frames))
        terminals == Cardinality({i \in 1..Len(appended) : appended[i].LoopToTarget})
    IN  [row |-> l.rowIndex,
         failed |-> n.pc = "error",
         folded |-> n.pc # "error" /\ appended = <<>>,
         base |-> n.baseFrameDelay,
         before |-> l.baseFrameDelay,
         prev |-> l.song.Frames[Len(l.song.Frames)].FrameDelay,
         target |-> n.finalTickrate,
         delay |-> IF appended = <<>> THEN -1 ELSE appended[1].FrameDelay,
         cycles |-> Cycles(n.song.Frames) - Cycles(l.song.Frames),
         index |-> Len(l.song.Frames),
         offs |-> l.channelOffs,
         copies |-> Len(appended) - terminals,
         terminals |-> terminals,
         halted |-> n.isHalted,
         looped |-> n.isLooped,
         last |-> n.pc = "finish"]

StartLowering ==
    /\ low.pc = "start"
    /\ low' = LowerPrologue(low, parsedSong, conv)
    /\ UNCHANGED fates
    /\ LowerRest

LowerRow ==
    /\ low.pc = "rows"
    /\ low.rowIndex < Len(parsedSong.Subsongs[1].Rows)
    /\ low' = RowTail(RowBody(low, parsedSong, conv))
    /\ fates' = Append(fates, FateOf(low, low'))
    /\ LowerRest

FinishLowering ==
    /\ \/ low.pc = "finish"
       \/ low.pc = "rows" /\ low.rowIndex >= Len(parsedSong.Subsongs[1].Rows)
    /\ low' = LowerEpilogue(low)
    /\ UNCHANGED fates
    /\ LowerRest

LowerNext ==
    \/ StartLowering
    \/ LowerRow
    \/ FinishLowering

SpecLower == LowerInit /\ [][LowerNext]_vars

(***************************************************************************)
(* Specification SpecParse: Parse(0) from the moment parseInternal has     *)
(* entered the state "subsongs", one step per line read, then the end of   *)
(* input and the lowering of subsong 0.                                    *)
(***************************************************************************)
MaxLines == 7

Line(kind, idx, key, value, cells) ==
    [kind |-> kind, idx |-> idx, key |-> key, value |-> value, cells |-> cells]

\* "## <idx>: <name>", "## Patterns", "orders:", "----- ORDER 00" and
\* "- <key>: <value>".
SubsongHeader(idx) == Line("## subsong", idx, "", <<>>, <<>>)
ListElement(key, value) == Line("list element", 0, key, value, <<>>)

\* A cell of a row line: pitch, two characters of instrument, volume and
\* one effect.
Cell(pitch, volume, effect) == pitch \o <<".", ".">> \o volume \o effect

DotCell == Cell(<<".", ".", ".">>, <<".", ".">>, <<".", ".", ".", ".">>)
\* "00 |cell|...|...|...": the cell in channel 0, nothing in channels 1..3.
RowLine(cell) == Line("row", 0, "", <<>>, <<cell, DotCell, DotCell, DotCell>>)

LineInputs ==
    {SubsongHeader(0), SubsongHeader(1),
     Line("## Patterns", 0, "", <<>>, <<>>),
     Line("orders:", 0, "", <<>>, <<>>),
     Line("----- ORDER", 0, "", <<>>, <<>>),
     ListElement("tick rate", <<Number(60)>>),
     ListElement("speeds", <<Number(3)>>),
     ListElement("pattern length", <<Number(1)>>),
     ListElement("pattern length", <<Number(0)>>),
     RowLine(DotCell),
     \* a row line with five channel cells
     Line("row", 0, "", <<>>, <<DotCell, DotCell, DotCell, DotCell, DotCell>>),
     \* a pitch and a volume
     RowLine(Cell(<<"A", "-", "2">>, <<"0", "F">>, <<".", ".", ".", ".">>)),
     \* 0B00, jump to pattern 0
     RowLine(Cell(<<".", ".", ".">>, <<".", ".">>, <<"0", "B", "0", "0">>)),
     \* 0A01 is a volume slide in Furnace; parseEffectString has no case for it
     RowLine(Cell(<<"A", "-", "2">>, <<"0", "F">>, <<"0", "A", "0", "1">>))}

\* The effect groups of a cell: the four characters at offsets 7, 11, ...
EffectGroups(cell) ==
    {SubSeq(cell, 8 + 4 * k, 11 + 4 * k) : k \in 0..((Len(cell) - 11) \div 4)}

\* A row line with an effect group whose id is a hexadecimal byte that is
\* neither 0B, 0D, 09, 0F, 20, F0, FF nor in C0..CF.
HasUnknownEffect(line) ==
    \E i \in 1..Len(line.cells) :
        \E g \in EffectGroups(line.cells[i]) :
            /\ ParseUintHex(SubSeq(g, 1, 2), 8) >= 0
            /\ ParseUintHex(SubSeq(g, 1, 2), 8) \notin KnownEffectIds
            /\ ParseUintHex(SubSeq(g, 1, 2), 8) \notin 192..207

\* What the input held, once the line has taken the parser from p to q: a
\* subsong header that opened a subsong, a metadata key of the open
\* subsong, a pattern row with an unknown effect, the cells of the row
\* lines of each subsong, and whether a line that is neither a row line,
\* an order header nor a subsong header was read where rows are parsed.
\* phase follows the lines alone: "header" after a subsong header, "orders"
\* after an 'orders:' that follows the header, "patterns" after a
\* '## Patterns' that follows the 'orders:'.
NoteInput(in0, p, q, line) ==
    LET in == [in0 EXCEPT !.phase =
                   IF line.kind = "## subsong" THEN "header"
                   ELSE IF line.kind = "orders:" /\ @ = "header" THEN "orders"
                   ELSE IF line.kind = "## Patterns" /\ @ = "orders"
                   THEN "patterns"
                   ELSE @]
        n == Len(in.keys)
        opened == Len(q.song.Subsongs) > Len(p.song.Subsongs)
        noted ==
            IF opened
            THEN [in EXCEPT !.keys = Append(@, {}),
                            !.rows = Append(@, <<>>),
                            !.unknownEffect = @ \/ (p.Ctx.parsingRows
                                                      /\ HasUnknownEffect(line))]
            ELSE IF p.Ctx.parsingMetadata /\ line.kind = "list element"
            THEN [in EXCEPT !.keys[n] = @ \cup {line.key}]
            ELSE IF p.Ctx.parsingRows /\ line.kind = "row"
            THEN [in EXCEPT !.unknownEffect = @ \/ HasUnknownEffect(line),
                            !.rows[n] = Append(@, line.cells)]
            ELSE in
    IN  IF p.Ctx.parsingRows
            /\ line.kind \notin {"row", "----- ORDER", "## subsong"}
        THEN [noted EXCEPT !.stray = TRUE]
        ELSE noted

\* The Parser when "# Subsongs" has just been read: a song with its
\* information and one sound chip, no subsong yet.
ParseInit ==
    /\ parser =
        [used |-> TRUE, lineNumber |-> 0, state |-> "subsongs",
         Ctx |-> [parsingSubsong |-> FALSE, parsingMetadata |-> FALSE,
                  parsingOrders |-> FALSE, parsingRows |-> FALSE,
                  tickRate |-> FALSE, speeds |-> FALSE, patternLength |-> FALSE],
         song |-> [Tuning |-> 440, SoundChips |-> <<[ClockDiv |-> FALSE]>>,
                   Subsongs |-> <<>>],
         warnings |-> <<>>]
    /\ returned = <<>>
    /\ input = [unknownEffect |-> FALSE, keys |-> <<>>, rows |-> <<>>,
               stray |-> FALSE, phase |-> "none"]
    /\ FrameIdle
    /\ SolverIdle
    /\ CompileIdle
    /\ LowerIdle
    /\ applied = <<>>

\* What a step of SpecParse leaves alone.
ParseRest == UNCHANGED <<FrameVars, SolverVars, CompileVars, LowerVars, applied>>

\* parseInternal reads on after the line, or Parse returns its fatal error.
Taken(r, line) ==
    /\ parser' = r.p
    /\ returned' = IF r.fatal = "none" THEN <<>>
                   ELSE <<[err |-> r.fatal, song |-> <<>>]>>
    /\ input' = NoteInput(input, parser, r.p, line)

\* The scanner delivers one more line.
ReadLine(line) ==
    /\ returned = <<>>
    /\ parser.lineNumber < MaxLines
    /\ Taken(subsongsLine(parser, line), line)
    /\ ParseRest

\* The scanner is at the end of the input; mode is how the platform
\* converts an out-of-range float.
EndOfInput(mode) ==
    /\ returned = <<>>
    /\ returned' = <<ParseAtEOF(parser, mode)>>
    /\ UNCHANGED <<parser, input>>
    /\ ParseRest

ParseNext ==
    \/ \E line \in LineInputs : ReadLine(line)
    \/ \E mode \in ConvModes : EndOfInput(mode)

SpecParse == ParseInit /\ [][ParseNext]_vars

(***************************************************************************)
(* Specification SpecFile: Parse(0) on a file read from its first line,    *)
(* one step per line, then the end of input.  input records what the file  *)
(* held: the keys given in the song-information section, whether its end   *)
(* marker was read there, and whether the end of input was reached.        *)
(***************************************************************************)
MaxFileLines == 19
\* Reading stops after this many warnings.
MaxWarnings == 2
\* Parse is called at most this many times on the Parser.
MaxParses == 3

\* Mutant: parseInternal starts without looking at the used flag.
parseInternalEntry_NoUsedCheck(p) ==
    [p |-> [p EXCEPT !.used = TRUE], err |-> "none"]

\* The first statements of parseInternal, before the scanner is asked for
\* a line: the error for a used Parser, else the Parser marked used.
parseInternalEntry(p) ==
    IF p.used
    THEN [p |-> p, err |-> "parser already used"]
    ELSE [p |-> [p EXCEPT !.used = TRUE], err |-> "none"]

\* NewParser's Parser; input.calls counts the Parse calls made on it.
FileInit ==
    /\ parser =
        [used |-> FALSE, lineNumber |-> 0, state |-> "signature",
         Ctx |-> [parsingSubsong |-> FALSE, parsingMetadata |-> FALSE,
                  parsingOrders |-> FALSE, parsingRows |-> FALSE,
                  tickRate |-> FALSE, speeds |-> FALSE, patternLength |-> FALSE],
         info |-> [name |-> FALSE, author |-> FALSE, tuning |-> FALSE],
         chips |-> [parsingChip |-> FALSE, parsingFlags |-> FALSE,
                    id |-> FALSE, flags |-> FALSE, chipType |-> FALSE,
                    customClock |-> FALSE],
         song |-> [Version |-> 0, Tuning |-> 440, SoundChips |-> <<>>,
                   Subsongs |-> <<>>],
         warnings |-> <<>>]
    /\ returned = <<>>
    /\ input = [infoKeys |-> {}, marker |-> FALSE, markerKeys |-> {},
                eof |-> FALSE, atEOF |-> "signature", rowsAtEOF |-> FALSE,
                calls |-> 0]
    /\ FrameIdle
    /\ SolverIdle
    /\ CompileIdle
    /\ LowerIdle
    /\ applied = <<>>

\* p.Parse(0) is called: the first call on the Parser, or a further call
\* once the call before it returned.  A call that passed the used check
\* goes on in FileReadLine and FileEndOfInput.
FileCallParse ==
    LET e == parseInternalEntry(parser)
    IN  /\ input.calls < MaxParses
        /\ input.calls = Len(returned)
        /\ parser' = e.p
        /\ returned' = IF e.err = "none" THEN returned
                       ELSE Append(returned, [err |-> e.err, song |-> <<>>])
        /\ input' = [input EXCEPT !.calls = @ + 1]
        /\ ParseRest

\* The scanner delivers one more line.
FileReadLine(line) ==
    /\ returned = <<>>
    /\ input.calls = 1
    /\ parser.lineNumber < MaxFileLines
    /\ Len(parser.warnings) < MaxWarnings
    /\ parser' = parseLine(parser, line).p
    /\ returned' = IF parseLine(parser, line).fatal = "none" THEN <<>>
                   ELSE <<[err |-> parseLine(parser, line).fatal, song |-> <<>>]>>
    /\ input' = IF parser.state # "song information" THEN input
                ELSE IF line.kind = "list element"
                THEN [input EXCEPT !.infoKeys = @ \cup {line.key}]
                ELSE IF line.kind = "# Sound Chips"
                THEN [input EXCEPT !.marker = TRUE, !.markerKeys = input.infoKeys]
                ELSE input
    /\ ParseRest

\* The scanner is at the end of the input.
FileEndOfInput(mode) ==
    /\ returned = <<>>
    /\ input.calls = 1
    /\ returned' = <<ParseAtEOF(parser, mode)>>
    /\ input' = [input EXCEPT !.eof = TRUE, !.atEOF = parser.state,
                              !.rowsAtEOF = parser.Ctx.parsingSubsong
                                              /\ parser.Ctx.parsingRows]
    /\ UNCHANGED parser
    /\ ParseRest

FileNext ==
    \/ \E line \in
          {Line("signature", 0, "", <<>>, <<>>),
           Line("version", 0, "", <<Number(232)>>, <<>>),
           Line("# Song Information", 0, "", <<>>, <<>>),
           ListElement("name", <<>>), ListElement("author", <<>>),
           ListElement("tuning", <<Number(440)>>),
           Line("# Sound Chips", 0, "", <<>>, <<>>),
           Line("- TI SN76489", 0, "", <<>>, <<>>),
           ListElement("id", <<Number(4)>>), ListElement("flags", <<>>),
           Line("fence", 0, "", <<>>, <<>>),
           Line("flag", 0, "chipType", <<Number(4)>>, <<>>),
           Line("flag", 0, "customClock", <<Number(4000000)>>, <<>>),
           Line("# Instruments", 0, "", <<>>, <<>>),
           Line("# Subsongs", 0, "", <<>>, <<>>),
           SubsongHeader(0),
           Line("orders:", 0, "", <<>>, <<>>),
           Line("## Patterns", 0, "", <<>>, <<>>)} : FileReadLine(line)
    \/ \E mode \in ConvModes : FileEndOfInput(mode)
    \/ FileCallParse

SpecFile == FileInit /\ [][FileNext]_vars

(***************************************************************************)
(* Specification SpecMain: the command main run without the option         *)
(* --subsong, on a file whose Song IR is parsedSong: Parse with the        *)
(* default subsongIndex 0, Compile, os.WriteFile.  applied holds the       *)
(* bytes written to the .bin file.                                         *)
(***************************************************************************)
MainInit ==
    /\ parsedSong \in
        {[Tuning |-> 440, SoundChips |-> <<[ClockDiv |-> FALSE]>>,
          Subsongs |-> [k \in 1..Len(rows) |->
                           [TickRate |-> [num |-> 60, den |-> 1],
                            PatternLength |-> 1, Speeds |-> <<3>>,
                            TimeBase |-> 0, Rows |-> rows[k]]]] :
            rows \in UNION {[1..n -> UNION {[1..r -> RowKinds] : r \in 0..1}] :
                               n \in 1..2}}
    /\ low = LowerStartState
    /\ fates = <<>>
    /\ conv \in ConvModes
    /\ target = [num |-> 1, den |-> 1]
    /\ solved = NotCalled
    /\ FrameIdle
    /\ CompileIdle
    /\ ParseIdle
    /\ applied = <<>>

\* song, err := p.Parse(subsongIndex), with subsongIndex the default 0 of
\* the option.
MainParse ==
    /\ low.pc = "start"
    /\ low' = parseNmos(parsedSong, conv)
    /\ UNCHANGED <<parsedSong, fates, FrameVars, SolverVars, CompileVars,
                   ParseVars, applied>>

\* rom, err := song.Compile()
MainCompile ==
    /\ low.pc = "done"
    /\ rom = <<>>
    /\ song' = low.song
    /\ rom' = <<Compile(low.song)>>
    /\ UNCHANGED <<FrameVars, SolverVars, LowerVars, ParseVars, applied>>

\* os.WriteFile(binPath, rom, 0o644), reached when Compile returned no
\* error.
MainWriteFile ==
    /\ rom # <<>>
    /\ ~rom[1].err /\ ~rom[1].panicked
    /\ applied = <<>>
    /\ applied' = <<[fn |-> "os.WriteFile", bytes |-> rom[1].bytes]>>
    /\ UNCHANGED <<FrameVars, SolverVars, CompileVars, LowerVars, ParseVars>>

MainNext == MainParse \/ MainCompile \/ MainWriteFile

SpecMain == MainInit /\ [][MainNext]_vars

(***************************************************************************)
(* Claims about the frame model (SpecFrame)                                *)
(***************************************************************************)
(* Specification SpecPure: one call of a function that reads and writes    *)
(* nothing but its argument and result: command.toBytes on a command a     *)
(* setter has built, parsePitchString on a three-character pitch cell.     *)
(***************************************************************************)
PureInit ==
    /\ applied = <<>>
    /\ FrameIdle
    /\ SolverIdle
    /\ CompileIdle
    /\ LowerIdle
    /\ ParseIdle

\* toBytes on the command the setter call with result r appended, if any.
CallToBytes(r) ==
    /\ applied = <<>>
    /\ ~r.err
    /\ applied' = <<[fn |-> "toBytes", command |-> r.f.commands[1],
                     bytes |-> toBytes(r.f.commands[1]),
                     cell |-> <<>>, parsed |-> [err |-> FALSE, pitch |-> 0]]>>
    /\ UNCHANGED <<FrameVars, SolverVars, CompileVars, LowerVars, ParseVars>>

CallParsePitchString(pitchString) ==
    /\ applied = <<>>
    /\ applied' = <<[fn |-> "parsePitchString",
                     command |-> MkCommand(0, 0, 0, 0, 0, 0),
                     bytes |-> <<>>, cell |-> pitchString,
                     parsed |-> parsePitchString(pitchString)]>>
    /\ UNCHANGED <<FrameVars, SolverVars, CompileVars, LowerVars, ParseVars>>

PureNext ==
    \/ \E ch \in 0..3, p \in 0..(maxSquarePeriod + 1) :
           CallToBytes(SetSquarePeriod(EmptyFrame, ch, p))
    \/ \E ch \in 0..4, a \in 0..(maxAttenuation + 1) :
           CallToBytes(SetAttenuation(EmptyFrame, ch, a))
    \/ \E m \in PeriodicNoise..(WhiteNoise + 1),
          rt \in LowNoise..(Channel3Noise + 1) :
           CallToBytes(SetNoiseControl(EmptyFrame, m, rt))
    \/ \E l \in {"A", "B", "C", "D", "E", "F", "G", "H", "a", "c", "g", "h", "O"},
          a \in {"#", "+", "-", "_", "=", "."},
          o \in {"0", "1", "2", "3", "4", "5", "6", "7", "8", "9", "F"} :
           CallParsePitchString(<<l, a, o>>)

SpecPure == PureInit /\ [][PureNext]_vars

(***************************************************************************)
CommandsOf(f, t, ch) ==
    {i \in 1..Len(f.commands) :
        f.commands[i].commandType = t /\ f.commands[i].channel = ch}

CommandsOfType(f, t) ==
    {i \in 1..Len(f.commands) : f.commands[i].commandType = t}

\* C7: after any sequence of setter calls a frame holds at most one
\* SetSquarePeriod per channel 0..2, at most one SetAttenuation per channel
\* 0..3, at most one SetNoiseControl, and its tempo was set by at most one
\* successful SetNewTempo.
C7_NoDuplicateCommands ==
    /\ \A ch \in 0..2 :
           Cardinality(CommandsOf(frame, SetSquarePeriodCommand, ch)) <= 1
    /\ \A ch \in 0..3 :
           Cardinality(CommandsOf(frame, SetAttenuationCommand, ch)) <= 1
    /\ Cardinality(CommandsOfType(frame, SetNoiseControlCommand)) <= 1
    /\ tempoSets <= 1
    /\ frame.hasTempoChange <=> (tempoSets = 1)

C7_Witness ==
    /\ Cardinality(CommandsOf(frame, SetSquarePeriodCommand, 2)) = 1
    /\ Cardinality(CommandsOf(frame, SetAttenuationCommand, 3)) = 1
    /\ Cardinality(CommandsOfType(frame, SetNoiseControlCommand)) = 1
    /\ tempoSets = 1
    /\ lastCall.op = "SetNoiseControl"
    /\ lastCall.a = WhiteNoise
    /\ lastCall.b = Channel3Noise
    /\ lastCall.err

\* The calls the frame model must reject, stated on the frame before the call.
MustReject(f, call) ==
    \/ /\ call.op = "SetNewTempo"
       /\ (f.hasTempoChange \/ call.a > 127)
    \/ /\ call.op = "SetSquarePeriod"
       /\ \/ call.a > 2
          \/ call.b > 1023
          \/ CommandsOf(f, SetSquarePeriodCommand, call.a) # {}
    \/ /\ call.op = "SetAttenuation"
       /\ \/ call.a > 3
          \/ call.b > 15
          \/ CommandsOf(f, SetAttenuationCommand, call.a) # {}
    \/ /\ call.op = "SetNoiseControl"
       /\ CommandsOfType(f, SetNoiseControlCommand) # {}

IsSetterCall(call) ==
    call.op \in {"SetNewTempo", "SetSquarePeriod", "SetAttenuation", "SetNoiseControl"}

\* C8: a setter call that duplicates an existing (command kind, channel)
\* pair, repeats SetNewTempo on a frame that already has a tempo change, or
\* passes an out-of-range value returns an error and leaves the frame's
\* commands, tempo, has_tempo_change, frame_delay and loop_to_target unchanged.
C8_RejectedCallLeavesFrame ==
    [][(IsSetterCall(lastCall') /\ MustReject(frame, lastCall'))
          => (lastCall'.err /\ frame' = frame)]_vars

\* A second SetAttenuation(0, ...) with a valid value was rejected.
C8_Witness ==
    /\ lastCall.op = "SetAttenuation"
    /\ lastCall.a = 0
    /\ lastCall.b <= 15
    /\ lastCall.err
    /\ Cardinality(CommandsOf(frame, SetAttenuationCommand, 0)) = 1

ReferenceFrameSize(f) ==
    IF f.hasTempoChange
    THEN 15
    ELSE 1 + 2 * Cardinality(CommandsOfType(f, SetSquarePeriodCommand))
           + Cardinality({i \in 1..Len(f.commands) :
                             f.commands[i].commandType # SetSquarePeriodCommand})
           + (IF Len(f.commands) >= 1 \/ f.FrameDelay > 0 THEN 1 ELSE 0)

\* C9: Frame.CalculateSize is 15 when the frame has a tempo change, otherwise
\* 1 + (2 per SetSquarePeriod + 1 per other command) + 1 more byte when the
\* frame has a command or frame_delay > 0; a frame with no commands and zero
\* delay is 1 byte.
C9_FrameSizeIsReference ==
    /\ FrameCalculateSize(frame) = ReferenceFrameSize(frame)
    /\ (frame.commands = <<>> /\ frame.FrameDelay = 0 /\ ~frame.hasTempoChange)
          => FrameCalculateSize(frame) = 1

\* A blank frame that only waits: no commands, a delay, two bytes.
C9_Witness ==
    /\ ~frame.hasTempoChange
    /\ frame.commands = <<>>
    /\ frame.FrameDelay = 255
    /\ lastCall.op = "FrameDelay"
    /\ FrameCalculateSize(frame) = 2

(***************************************************************************)
(* Claims about the tempo solver (SpecSolver)                              *)
(***************************************************************************)
\* |achieved - target| / target <= 1/100, with achieved = 31250/d, on the
\* integers: the quotient is negative when the target is.
WithinTolerance(d, t) ==
    /\ t.den > 0
    /\ t.num # 0
    /\ t.num > 0 => Abs(31250 * t.den - t.num * d) <= (t.num * d) \div 100

RatEqual(a, b, c, d) == ~RatLess(a, b, c, d) /\ ~RatLess(c, d, a, b)

\* C10: every result FindBestRate returns with ok = true has tempo in 0..127,
\* delay in 0..254, achieved rate equal to 31250/((delay+1)*(tempo+129)) and
\* relative error |achieved - target|/target <= 0.01.
C10_SolverResultWithinTolerance ==
    \A i \in 1..Len(solved) :
        LET r == solved[i]
            d == (r.frameDelay + 1) * (r.tempo + 129)
        IN  r.ok =>
              /\ r.tempo \in 0..127
              /\ r.frameDelay \in 0..254
              /\ r.achieved = [num |-> 31250, den |-> d]
              /\ WithinTolerance(d, target)
              /\ ~r.relErr.inf
              /\ RatEqual(r.relErr.num, r.relErr.den,
                          Sign(target.num) * Abs(31250 * target.den - target.num * d),
                          d * Abs(target.num))

\* 60 Hz at speed 3 is 20 Hz: solved by tempo 94 at delay 6.
C10_Witness ==
    /\ target = [num |-> 20, den |-> 1]
    /\ Len(solved) = 1
    /\ solved[1].ok
    /\ solved[1].tempo = 94
    /\ solved[1].frameDelay = 6


(***************************************************************************)
(* Claims about the binary emitter (SpecCompile)                           *)
(***************************************************************************)
\* C1: for a song whose frames were built only through the setters and whose
\* initial tempo is in 0..127, Compile returns no error and as many bytes as
\* NmosSong.CalculateSize says; the size-mismatch error is unreachable.
C1_CompiledSizeIsSongSize ==
    \A i \in 1..Len(rom) :
        song.InitialTempo \in 0..127 =>
            /\ ~rom[i].err
            /\ ~rom[i].panicked
            /\ Len(rom[i].bytes) = SongCalculateSize(song)

\* A compiled two-frame song: frame 0 without a tempo change (widened to 15
\* bytes), then a frame with a tempo change, a period and an attenuation.
C1_Witness ==
    /\ Len(rom) = 1
    /\ song.InitialTempo = 127
    /\ Len(song.Frames) = 2
    /\ ~song.Frames[1].hasTempoChange
    /\ song.Frames[2].hasTempoChange
    /\ Len(song.Frames[2].commands) = 2
    /\ song.Frames[2].commands[2].commandType = SetSquarePeriodCommand
    /\ Len(rom[1].bytes) = 30


(***************************************************************************)
(* Claims about the lowering engine (SpecLower)                            *)
(***************************************************************************)
\* The rows of the subsong being lowered.
RowsOf == parsedSong.Subsongs[1].Rows

\* The turn recorded in fate d ended in neither an error nor a panic.
Lowered(d) == ~d.failed

\* C2: every processed row contributes exactly base_frame_delay + 1 Frame
\* Clock cycles to the sum of frame_delay + 1 over the emitted frames,
\* whether it is emitted as its own frame or folded into the delay of the
\* previous frame.  (Rows that end the song by looping are left to C3.)
C2_RowContributesBasePlusOne ==
    \A i \in 1..Len(fates) :
        (Lowered(fates[i]) /\ ~fates[i].looped) =>
            fates[i].cycles = fates[i].base + 1

\* The value v of a backward JumpToPattern(v) carried by row r: v is at most
\* the pattern r is in.
BackwardJumps(r) ==
    {RowsOf[r + 1].Effects[k].Value :
        k \in {k \in 1..Len(RowsOf[r + 1].Effects) :
                  /\ RowsOf[r + 1].Effects[k].Type = EffectJumpToPattern
                  /\ RowsOf[r + 1].Effects[k].Value
                        <= r \div parsedSong.Subsongs[1].PatternLength}}

HasStopSong(r) ==
    \E k \in 1..Len(RowsOf[r + 1].Effects) :
        RowsOf[r + 1].Effects[k].Type = EffectStopSong

\* C3: a row with a backward JumpToPattern(v) and no StopSong sets
\* loop_target = v*pattern_length + 1, has its frame appended exactly once,
\* is followed by exactly one terminal frame with loop_to_target, and is the
\* last row processed.
C3_LoopRowAppendedOnce ==
    \A i \in 1..Len(fates) :
        (/\ Lowered(fates[i])
         /\ BackwardJumps(fates[i].row) # {}
         /\ ~HasStopSong(fates[i].row)) =>
            /\ \E v \in BackwardJumps(fates[i].row) :
                   low.song.LoopTarget
                       = v * parsedSong.Subsongs[1].PatternLength + 1
            /\ fates[i].copies = 1
            /\ fates[i].terminals = 1
            /\ i = Len(fates)
            /\ low.pc \in {"finish", "done"}

\* C4: the row the loop target designates (row loop_target - 1, the first
\* row of the pattern jumped back to) is never folded into the delay of the
\* frame before it.
C4_LoopTargetRowNotFolded ==
    \A i, j \in 1..Len(fates) :
        (/\ Lowered(fates[i])
         /\ BackwardJumps(fates[i].row) # {}
         /\ ~HasStopSong(fates[i].row)
         /\ fates[j].row = low.song.LoopTarget - 1) =>
            ~fates[j].folded

(***************************************************************************)
(* Claims about the parser (SpecParse)                                     *)
(***************************************************************************)
\* Parse returned a fatal error and no song.
ParseFailed == returned # <<>> /\ returned[1].err # "none" /\ returned[1].song = <<>>

RequiredKeys == {"tick rate", "speeds", "pattern length"}

\* Every subsong of the input gave the three required metadata keys.
AllKeysGiven ==
    \A i \in 1..Len(input.keys) : RequiredKeys \subseteq input.keys[i]

\* C5: a pattern row with an effect group whose id is not one of 0B, 0D, 09,
\* 0F, 20, C0..CF, F0, FF makes Parse fail with a fatal error and return no
\* song.  (Stated for inputs whose subsongs give every required key, so
\* that nothing else in the input calls for an error.)
C5_UnknownEffectIsFatal ==
    (returned # <<>> /\ input.unknownEffect /\ AllKeysGiven) => ParseFailed

\* C6: if any subsong of the file, the last one included, lacks one of the
\* required metadata keys, Parse returns a fatal error instead of a song.
C6_MissingKeyIsFatal ==
    (/\ returned # <<>>
     /\ ~AllKeysGiven)
        => ParseFailed


\* Does some tempo in 0..127 bring delay d within 1% of the target?
DelayMeetsTolerance(d) ==
    \E t \in 0..127 : WithinTolerance((d + 1) * (t + 129), target)

\* The smallest delay in lo..254 some tempo in 0..127 brings within 1% of the
\* target, 255 when there is none.
RECURSIVE SmallestDelayFrom(_)
SmallestDelayFrom(lo) ==
    IF lo >= 255 THEN 255
    ELSE LET hi == Min(lo + 14, 254)
             meeting == {d \in lo..hi : DelayMeetsTolerance(d)}
         IN  IF meeting = {}
             THEN SmallestDelayFrom(hi + 1)
             ELSE CHOOSE d \in meeting : \A k \in meeting : d <= k

SolvedAsReference(r, ref) ==
    IF ref = 255 THEN ~r.ok ELSE r.ok /\ r.frameDelay = ref

\* C11: for a positive target rate FindBestRate returns the smallest delay
\* in 0..254 for which some tempo in 0..127 has relative error <= 0.01, and
\* returns no solution only when no pair (tempo, delay) meets the tolerance.
C11_SmallestDelayFound ==
    \A i \in 1..Len(solved) :
        (target.num > 0 /\ target.den > 0)
            => SolvedAsReference(solved[i], SmallestDelayFrom(0))

(***************************************************************************)
(* Claims about the end of the lowering (SpecLower)                        *)
(***************************************************************************)
\* C12: a row with StopSong ends the lowering: its frame is appended as a
\* frame of its own, loop_target is the index of that frame, exactly one
\* terminal frame with loop_to_target follows it, and no later row adds a
\* frame.
C12_StopSongEndsLowering ==
    \A i \in 1..Len(fates) :
        (Lowered(fates[i]) /\ HasStopSong(fates[i].row)) =>
            /\ fates[i].copies = 1
            /\ fates[i].terminals = 1
            /\ i = Len(fates)
            /\ low.pc \in {"finish", "done"}
            /\ low.song.LoopTarget = fates[i].index
            /\ Len(low.song.Frames) = fates[i].index + 2
            /\ ~low.song.Frames[fates[i].index + 1].LoopToTarget
            /\ low.song.Frames[fates[i].index + 2].LoopToTarget

\* A StopSong in the second of three rows, after a row with a pitch: the
\* frames are the reset frame, the pitch row, the StopSong row and the
\* terminal frame, and the third row is never processed.
C12_Witness ==
    /\ low.pc = "done"
    /\ Len(RowsOf) = 3
    /\ Len(fates) = 2
    /\ Lowered(fates[2])
    /\ HasStopSong(1)
    /\ ~fates[1].folded
    /\ low.song.LoopTarget = 2
    /\ Len(low.song.Frames) = 4

\* The frames of the lowered song that carry the loop bit.
TerminalFrames == {k \in 1..Len(low.song.Frames) : low.song.Frames[k].LoopToTarget}

\* The row loop ended with neither a StopSong nor a backward jump processed.
FellThrough == low.pc = "done" /\ ~low.isHalted /\ ~low.isLooped

\* C13: when the row loop runs off the end of the rows (a forward jump past
\* the last row included) with neither a halt nor a backward jump, the
\* lowering appends one terminal frame with loop_to_target and sets
\* loop_target = 0.
C13_FallthroughLoopsToStart ==
    FellThrough =>
        /\ TerminalFrames = {Len(low.song.Frames)}
        /\ low.song.LoopTarget = 0
        /\ Cardinality({i \in 1..Len(fates) : ~fates[i].folded}) + 2
               = Len(low.song.Frames)

\* A forward JumpToPattern(1) in row 0 of three rows, pattern length 2: the
\* jump leaves row 1 out, row 2 is processed and the loop runs off the end.
C13_Witness ==
    /\ FellThrough
    /\ Len(RowsOf) = 3
    /\ parsedSong.Subsongs[1].PatternLength = 2
    /\ RowsOf[1].Effects = <<[Type |-> EffectJumpToPattern, Value |-> 1]>>
    /\ Len(fates) = 2
    /\ fates[2].row = 2

(***************************************************************************)
(* Claims about the emitted bytes (SpecCompile)                            *)
(***************************************************************************)
\* Compile has returned the bytes of the song.
Emitted == rom # <<>> /\ ~rom[1].err /\ ~rom[1].panicked

\* Where frame k (from 1) starts in the emitted bytes, read as the player
\* reads them: a header, then as many bytes as its low nibble says.
RECURSIVE FrameStart(_)
FrameStart(k) ==
    IF k = 1 THEN 1
    ELSE FrameStart(k - 1) + (rom[1].bytes[FrameStart(k - 1)] % 16) + 1

\* The bytes of frame k (from 1), header first, as far as they were emitted.
EmittedFrame(k) ==
    LET start == FrameStart(k)
        bytes == rom[1].bytes
    IN  IF start > Len(bytes) THEN <<>>
        ELSE SubSeq(bytes, start, Min(start + (bytes[start] % 16), Len(bytes)))

\* The bytes of the chip commands of a frame, in order.
RECURSIVE ChipBytes(_)
ChipBytes(cmds) ==
    IF cmds = <<>> THEN <<>> ELSE toBytes(Head(cmds)) \o ChipBytes(Tail(cmds))

\* What Compile keeps in lastCommand once the chip commands are written:
\* their last byte, the zero value when the frame has no command.
LastCommand(cb) == IF cb = <<>> THEN 0 ELSE cb[Len(cb)]

\* e is a 15-byte frame with the given tempo byte at command index 14, the
\* chip bytes cb from index 13 down, then filler down to index 2, and the
\* frame delay at index 1.
IsTempoFrame(e, tempo, cb, delay) ==
    /\ Len(e) = 15
    /\ e[1] % 16 = 14
    /\ e[2] = tempo % 128
    /\ Len(cb) <= 12
    /\ SubSeq(e, 3, 2 + Len(cb)) = cb
    /\ \A j \in (3 + Len(cb))..14 : e[j] = LastCommand(cb)
    /\ e[15] = delay

\* C14: every emitted frame that has a tempo change is exactly 15 bytes: a
\* header with low nibble 14, then tempo & 0x7f (command index 14), then at
\* indices 13..2 the chip command bytes followed by filler, then the frame
\* delay (index 1).
C14_TempoFrameIsFifteenBytes ==
    Emitted =>
        \A k \in 1..Len(song.Frames) :
            song.Frames[k].hasTempoChange =>
                IsTempoFrame(EmittedFrame(k), song.Frames[k].tempo,
                             ChipBytes(song.Frames[k].commands),
                             song.Frames[k].FrameDelay)

\* The second frame has a tempo change, a period and an attenuation: three
\* chip bytes, nine fillers.
C14_Witness ==
    /\ Emitted
    /\ Len(song.Frames) = 2
    /\ song.Frames[2].hasTempoChange
    /\ song.Frames[2].FrameDelay = 3
    /\ Len(song.Frames[2].commands) = 2
    /\ EmittedFrame(2) = <<14, 5, 143, 63, 255, 255, 255, 255, 255, 255, 255,
                           255, 255, 255, 3>>

\* C15: frame 0 is always emitted 15 bytes wide (initial_tempo being in its
\* range 0..127): when frame 0 has no tempo change of its own the byte at
\* command index 14 is initial_tempo & 0x7f; when it has one, the injection
\* error is ignored and that byte is frame 0's own tempo.
C15_FirstFrameCarriesTempo ==
    (rom # <<>> /\ song.InitialTempo \in 0..127 /\ Len(song.Frames) > 0) =>
        /\ Emitted
        /\ Len(EmittedFrame(1)) = 15
        /\ EmittedFrame(1)[1] % 16 = 14
        /\ EmittedFrame(1)[2] = IF song.Frames[1].hasTempoChange
                                THEN song.Frames[1].tempo
                                ELSE song.InitialTempo % 128

\* Frame 0 has its own tempo change to 5 and the initial tempo is 127: the
\* byte at index 14 is 5.
C15_Witness ==
    /\ Emitted
    /\ song.InitialTempo = 127
    /\ Len(song.Frames) = 2
    /\ song.Frames[1].hasTempoChange
    /\ song.Frames[1].tempo = 5
    /\ ~song.Frames[2].hasTempoChange
    /\ EmittedFrame(1)[2] = 5

\* The width in bytes frame k (from 1) must have: 15 for frame 0 and for a
\* frame with a tempo change, the closed form of its size otherwise.
FrameWidth(k) ==
    IF k = 1 THEN 15 ELSE ReferenceFrameSize(song.Frames[k])

\* Where frame k must start, given the widths of the frames before it.
RECURSIVE WidthStart(_)
WidthStart(k) == IF k = 1 THEN 1 ELSE WidthStart(k - 1) + FrameWidth(k - 1)

\* C16: the header of every emitted frame i has bit 7 set exactly when
\* i = loop_target, bit 6 set exactly when the frame's loop_to_target is
\* true, bits 5 and 4 zero, and a low nibble equal to the number of bytes
\* that follow the header in the frame (the frame's last byte being its
\* frame delay, where it has one).
C16_HeaderByte ==
    Emitted =>
        /\ WidthStart(Len(song.Frames) + 1) = Len(rom[1].bytes) + 1
        /\ \A k \in 1..Len(song.Frames) :
               LET header == rom[1].bytes[WidthStart(k)]
               IN  /\ (header \div 128 = 1) <=> (k - 1 = song.LoopTarget)
                   /\ ((header \div 64) % 2 = 1) <=> song.Frames[k].LoopToTarget
                   /\ (header \div 16) % 4 = 0
                   /\ header % 16 = FrameWidth(k) - 1
                   /\ FrameWidth(k) > 1 =>
                          rom[1].bytes[WidthStart(k) + FrameWidth(k) - 1]
                              = song.Frames[k].FrameDelay

\* Two frames, the second being the loop target and carrying the loop bit
\* with every chip command: headers 14 and 128 + 64 + 12.
C16_Witness ==
    /\ Emitted
    /\ song.LoopTarget = 1
    /\ Len(song.Frames) = 2
    /\ song.Frames[2].LoopToTarget
    /\ Len(song.Frames[2].commands) = 8
    /\ rom[1].bytes[1] = 14
    /\ rom[1].bytes[16] = 204
    /\ Len(rom[1].bytes) = 28

\* The positions in the emitted frame k (from 1) of the bytes written at a
\* command index in 2..13 once every chip command of the frame is written.
FillerPositions(k) ==
    (2 + Len(ChipBytes(song.Frames[k].commands)) + 1)..(Len(EmittedFrame(k)) - 1)

\* C17: in every emitted frame, each byte written at a command index in
\* 2..13 after all chip commands of the frame is a filler equal to the last
\* chip command byte written in that same frame.
C17_FillerRepeatsLastChipByte ==
    Emitted =>
        \A k \in 1..Len(song.Frames) :
            Len(EmittedFrame(k)) = 15 =>
                \A j \in FillerPositions(k) :
                    /\ song.Frames[k].commands # <<>>
                    /\ EmittedFrame(k)[j]
                          = LastCommand(ChipBytes(song.Frames[k].commands))

(***************************************************************************)
(* Claims about command.toBytes and parsePitchString (SpecPure)            *)
(***************************************************************************)
\* The command a sequence of chip bytes stands for, read as the SN76489
\* reads it: two bytes are a period, a byte with bit 4 an attenuation, any
\* other byte a noise control.
DecodedCommand(b) ==
    IF Len(b) = 2
    THEN MkCommand(SetSquarePeriodCommand, (b[1] \div 32) % 4,
                   (b[1] % 16) + 16 * b[2], 0, PeriodicNoise, LowNoise)
    ELSE IF (b[1] \div 16) % 2 = 1
    THEN MkCommand(SetAttenuationCommand, (b[1] \div 32) % 4, 0, b[1] % 16,
                   PeriodicNoise, LowNoise)
    ELSE MkCommand(SetNoiseControlCommand, (b[1] \div 32) % 4, 0, 0,
                   IF (b[1] \div 4) % 2 = 1 THEN WhiteNoise ELSE PeriodicNoise,
                   CASE b[1] % 4 = 0 -> HighNoise [] b[1] % 4 = 1 -> MediumNoise
                     [] b[1] % 4 = 2 -> LowNoise [] OTHER -> Channel3Noise)

\* The bytes the format gives command c.
FormatBytes(c) ==
    IF c.commandType = SetSquarePeriodCommand
    THEN <<128 + 32 * c.channel + (c.period % 16), (c.period \div 16) % 64>>
    ELSE IF c.commandType = SetAttenuationCommand
    THEN <<144 + 32 * c.channel + c.attenuation>>
    ELSE <<224 + 4 * (IF c.noiseMode = WhiteNoise THEN 1 ELSE 0)
               + (CASE c.noiseRate = HighNoise -> 0 [] c.noiseRate = MediumNoise -> 1
                    [] c.noiseRate = LowNoise -> 2 [] OTHER -> 3)>>

\* C18: SetSquarePeriod(ch, p), ch in 0..2 and p in 0..1023, encodes to
\* b0 = 0x80 | ch << 5 | p & 0x0f and b1 = (p >> 4) & 0x3f; SetAttenuation(ch,
\* a), ch in 0..3 and a in 0..15, to 0x90 | ch << 5 | a; SetNoiseControl to
\* 0xE0 | M << 2 | RR with M = 1 for White and RR = High 0, Medium 1, Low 2,
\* Channel3 3; the command is recovered exactly from its bytes, so distinct
\* commands never encode to the same bytes.
C18_EncodingRoundTrips ==
    \A i \in 1..Len(applied) :
        applied[i].fn = "toBytes" =>
            /\ applied[i].bytes = FormatBytes(applied[i].command)
            /\ \A k \in 1..Len(applied[i].bytes) : applied[i].bytes[k] \in 0..255
            /\ DecodedCommand(applied[i].bytes) = applied[i].command

\* The period of the format's example frame: channel 0, period 200, bytes
\* 10001000 and 00001100.
C18_Witness ==
    /\ applied # <<>>
    /\ applied[1].fn = "toBytes"
    /\ applied[1].command.commandType = SetSquarePeriodCommand
    /\ applied[1].command.channel = 0
    /\ applied[1].command.period = 200
    /\ applied[1].bytes = <<136, 12>>

\* The value of an octave digit of the pitch grammar.
OctaveDigit(c) ==
    CASE c = "0" -> 0 [] c = "1" -> 1 [] c = "2" -> 2 [] c = "3" -> 3
      [] c = "4" -> 4 [] c = "5" -> 5 [] c = "6" -> 6 [] c = "7" -> 7
      [] OTHER -> 8

\* The pitch cell grammar: a letter A..G, a sign, an octave digit 0..7, at
\* most 5 when the sign is + or _.
InPitchGrammar(cell) ==
    /\ cell[1] \in {"A", "B", "C", "D", "E", "F", "G"}
    /\ cell[2] \in {"#", "+", "-", "_"}
    /\ OctaveDigit(cell[3]) <= 7
    /\ cell[2] \in {"+", "_"} => OctaveDigit(cell[3]) <= 5

\* (octave+1)*12 + base[letter] + accidental for a cell of the grammar.
GrammarPitch(cell) ==
    ((IF cell[2] \in {"+", "_"} THEN -OctaveDigit(cell[3])
                                 ELSE OctaveDigit(cell[3])) + 1) * 12
    + (CASE cell[1] = "C" -> 0 [] cell[1] = "D" -> 2 [] cell[1] = "E" -> 4
         [] cell[1] = "F" -> 5 [] cell[1] = "G" -> 7 [] cell[1] = "A" -> 9
         [] OTHER -> 11)
    + (IF cell[2] \in {"#", "+"} THEN 1 ELSE 0)

\* C20: for every 3-character pitch cell other than "..." and "OFF",
\* parsePitchString fails exactly when the cell violates the grammar (letter
\* A..G, sign one of # + - _, octave digit 0..7, at most 5 with + or _) and
\* otherwise returns (octave+1)*12 + base[letter] + accidental.
C20_PitchFollowsGrammar ==
    \A i \in 1..Len(applied) :
        applied[i].fn = "parsePitchString" =>
            /\ applied[i].parsed.err <=> ~InPitchGrammar(applied[i].cell)
            /\ ~applied[i].parsed.err =>
                   applied[i].parsed.pitch = GrammarPitch(applied[i].cell)

\* The turn i of the row loop processed a D-4 pitch in channel 3 and the
\* turn before it processed the row above it, a NoiseControl effect with
\* the value 0x02 (the cell 2002); both appended a frame.
NoisePresetThenD(i) ==
    /\ i \in 2..Len(fates)
    /\ Lowered(fates[i - 1]) /\ Lowered(fates[i])
    /\ fates[i].row = fates[i - 1].row + 1
    /\ RowsOf[fates[i - 1].row + 1] = EffectRow(EffectNoiseControl, 2)
    /\ RowsOf[fates[i].row + 1].Effects = <<>>
    /\ RowsOf[fates[i].row + 1].Notes[4].HasPitch
    /\ RowsOf[fates[i].row + 1].Notes[4].Pitch = 62
    /\ fates[i].copies = 1

\* C19: a NoiseControl effect with value 0x02 followed on the next row by a
\* D-4 pitch on channel 3 produces a frame carrying
\* SetNoiseControl(White, High), plus SetAttenuation(3, 15 -
\* channel_volumes[3]) when channel 3 was off.
C19_NoisePresetWhiteHigh ==
    \A i \in 1..Len(fates) :
        NoisePresetThenD(i) =>
            LET f == low.song.Frames[fates[i].index + 1]
            IN  /\ {<<f.commands[k].noiseMode, f.commands[k].noiseRate>> :
                        k \in CommandsOfType(f, SetNoiseControlCommand)}
                       = {<<WhiteNoise, HighNoise>>}
                /\ fates[i].offs[4] =>
                       {f.commands[k].attenuation :
                           k \in CommandsOf(f, SetAttenuationCommand, 3)}
                           = {15 - low.channelVolumes[4]}

\* C21: every song returned by a successful Parse has pattern_length > 0
\* and tick_rate > 0 in each subsong.  Stated for the inputs in which every
\* subsong gives its three required keys.
C21_NumericSubsongFields ==
    (/\ returned # <<>>
     /\ returned[1].err = "none"
     /\ AllKeysGiven) =>
        \A k \in 1..Len(parser.song.Subsongs) :
            /\ parser.song.Subsongs[k].PatternLength > 0
            /\ parser.song.Subsongs[k].TickRate.num > 0

\* C22: every Note in every Row of a successfully parsed song has its
\* channel in 0..3, also when a row line has more than four channel cells.
C22_NoteChannelInRange ==
    (returned # <<>> /\ returned[1].err = "none") =>
        \A k \in 1..Len(parser.song.Subsongs) :
            \A r \in 1..Len(parser.song.Subsongs[k].Rows) :
                \A n \in 1..Len(parser.song.Subsongs[k].Rows[r].Notes) :
                    parser.song.Subsongs[k].Rows[r].Notes[n].Channel \in 0..3

\* C23: Parse succeeds only if the end of input finds the parser in the
\* state "subsongs" with a subsong open and row parsing started; an input
\* that ends in any earlier state or sub-state yields the fatal error
\* "unexpected EOF".
C23_EOFNeedsRows ==
    /\ (returned # <<>> /\ returned[1].err = "none") =>
           /\ input.eof
           /\ input.atEOF = "subsongs"
           /\ input.rowsAtEOF
    /\ (input.eof /\ ~(input.atEOF = "subsongs" /\ input.rowsAtEOF)) =>
           /\ returned # <<>>
           /\ returned[1] = [err |-> "unexpected EOF", song |-> <<>>]

\* The input ends after "orders:" of subsong 0, before "## Patterns".
C23_Witness ==
    /\ input.eof
    /\ parser.state = "subsongs"
    /\ parser.Ctx.parsingSubsong /\ parser.Ctx.parsingOrders
    /\ ~parser.Ctx.parsingRows
    /\ returned = <<[err |-> "unexpected EOF", song |-> <<>>]>>

\* C24: if the marker "# Sound Chips" is reached while one of the keys
\* name, author, tuning has not been seen in the song-information section,
\* Parse returns a fatal error and the parser never enters the state
\* "sound chips".
C24_MissingInfoKeyIsFatal ==
    (input.marker /\ ~({"name", "author", "tuning"} \subseteq input.markerKeys)) =>
        /\ returned # <<>>
        /\ returned[1].err = "missing fields in Song Information section"
        /\ returned[1].song = <<>>
        /\ parser.state = "song information"

\* The marker comes after name and tuning, with no author line.
C24_Witness ==
    /\ input.marker
    /\ input.markerKeys = {"name", "tuning"}
    /\ returned # <<>>
    /\ parser.state = "song information"

\* C25: lowering a song whose first sound chip has clock_div = true always
\* fails with the clock-div-unsupported error and returns no NmosSong,
\* whatever the rows contain.
C25_ClockDivRejected ==
    (parsedSong.SoundChips # <<>> /\ parsedSong.SoundChips[1].ClockDiv
        /\ low.pc # "start") =>
        /\ low.pc = "error"
        /\ low.err = "clock div"

\* The ROM bytes of subsong k of parsedSong: parseNmos reads, of the
\* subsongs, only the one selected.
RomOfSubsong(k) ==
    Compile(parseNmos([parsedSong EXCEPT !.Subsongs = <<parsedSong.Subsongs[k]>>],
                      conv).song).bytes

RECURSIVE RomsFrom(_)
RomsFrom(k) ==
    IF k > Len(parsedSong.Subsongs) THEN <<>>
    ELSE RomOfSubsong(k) \o RomsFrom(k + 1)

\* C26: when the option --subsong is omitted, the bytes written to the .bin
\* file are the concatenation of the ROM byte streams of every subsong of
\* the input, in subsong order.
C26_AllSubsongsWritten ==
    applied # <<>> => applied[1].bytes = RomsFrom(1)

\* The index in song.Frames of the frame that holds the row of turn i: the
\* frame the turn appended, or the frame before it when the row was folded.
FrameOfTurn(i) == IF fates[i].folded THEN fates[i].index - 1 ELSE fates[i].index

\* C27: after a successful lowering loop_target is a valid frame index and,
\* after a backward JumpToPattern(v), it is the index of the frame generated
\* from the first row of pattern v, whatever blank rows were coalesced
\* before the jump.
C27_LoopTargetIsPatternStart ==
    low.pc = "done" =>
        /\ low.song.LoopTarget \in 0..(Len(low.song.Frames) - 1)
        /\ (low.isLooped /\ ~low.isHalted) =>
               \A v \in BackwardJumps(fates[Len(fates)].row) :
                   \A i \in 1..Len(fates) :
                       fates[i].row = v * parsedSong.Subsongs[1].PatternLength =>
                           low.song.LoopTarget = FrameOfTurn(i)

\* C28: the rows of a subsong in the Song IR are exactly the row lines of
\* its Patterns section, in file order: "----- ORDER" lines and the header
\* line of the next subsong add no Row to the current subsong.  Stated for
\* the inputs that hold nothing but row lines, order headers and subsong
\* headers where rows are parsed, at every point parseInternal has reached
\* without an error.
C28_RowsAreRowLines ==
    ((returned = <<>> \/ returned[1].err = "none") /\ ~input.stray) =>
        \A k \in 1..Len(parser.song.Subsongs) :
            /\ Len(parser.song.Subsongs[k].Rows) = Len(input.rows[k])
            /\ \A r \in 1..Len(input.rows[k]) :
                   parser.song.Subsongs[k].Rows[r] =
                       parseCells([row |-> [Notes |-> <<>>, Effects |-> <<>>],
                                   warned |-> 0, panicked |-> FALSE],
                                  input.rows[k][r], 1).row

\* The turn i of the row loop processed a row with only a pitch in channel
\* 3, and the turn before it lowered the row above it, a NoiseControl
\* effect with the value 0x02, which selects a preset rate.
PresetPitchTurn(i) ==
    /\ i \in 2..Len(fates)
    /\ Lowered(fates[i - 1])
    /\ fates[i].row = fates[i - 1].row + 1
    /\ RowsOf[fates[i - 1].row + 1] = EffectRow(EffectNoiseControl, 2)
    /\ RowsOf[fates[i].row + 1].Effects = <<>>
    /\ RowsOf[fates[i].row + 1].Notes[4].HasPitch

\* C29: in preset noise mode a pitch on channel 3 is mapped by its pitch
\* class in every octave, negative MIDI numbers included: C gives Low, C#
\* gives Medium, D gives High, and every other pitch class aborts lowering.
C29_PresetByPitchClass ==
    \A i \in 1..Len(fates) :
        PresetPitchTurn(i) =>
            LET pitchClass == RowsOf[fates[i].row + 1].Notes[4].Pitch % 12
                rate == CASE pitchClass = 0 -> LowNoise
                          [] pitchClass = 1 -> MediumNoise
                          [] OTHER -> HighNoise
            IN  IF pitchClass \in {0, 1, 2}
                THEN /\ Lowered(fates[i])
                     /\ {low.song.Frames[fates[i].index + 1].commands[k].noiseRate :
                            k \in CommandsOfType(
                                     low.song.Frames[fates[i].index + 1],
                                     SetNoiseControlCommand)} = {rate}
                ELSE fates[i].failed

\* The row of turn i has one effect and it is of type t.
TurnHas(i, t) ==
    /\ Len(RowsOf[fates[i].row + 1].Effects) = 1
    /\ RowsOf[fates[i].row + 1].Effects[1].Type = t

TempoTurn(i) ==
    TurnHas(i, EffectSpeed) \/ TurnHas(i, EffectTickRateHz)
        \/ TurnHas(i, EffectTickRateBpm)

\* The value of the effect of the latest turn among those in turns, a set
\* that is not empty.
LatestValue(turns) ==
    RowsOf[fates[CHOOSE j \in turns : \A k \in turns : k <= j].row + 1]
        .Effects[1].Value

\* The tick rate after turn i as the statement gives it: v of the latest
\* TickRateHz, v*24/60 of the latest TickRateBpm, else the subsong's.
StatedTickRate(i) ==
    LET turns == {j \in 1..i : TurnHas(j, EffectTickRateHz)
                                  \/ TurnHas(j, EffectTickRateBpm)}
        last == CHOOSE j \in turns : \A k \in turns : k <= j
    IN  IF turns = {} THEN parsedSong.Subsongs[1].TickRate
        ELSE IF TurnHas(last, EffectTickRateHz)
        THEN [num |-> LatestValue(turns), den |-> 1]
        ELSE [num |-> LatestValue(turns) * 24, den |-> 60]

\* The speed after turn i: the value of the latest Speed effect among the
\* turns that count, else speeds[0].
StatedSpeed(i, counted) ==
    LET turns == {j \in 1..i : TurnHas(j, EffectSpeed) /\ counted}
    IN  IF turns = {} THEN parsedSong.Subsongs[1].Speeds[1]
        ELSE LatestValue(turns)

\* The target of turn i is tick rate / (speed * (time_base + 1)).
TargetIs(i, speed) ==
    fates[i].target.num * StatedTickRate(i).den * speed
            * (parsedSong.Subsongs[1].TimeBase + 1)
        = StatedTickRate(i).num * fates[i].target.den

\* base_frame_delay after turn i is the delay of the solve of the turn when
\* it solved, else what it was, and it starts as the delay of the first
\* solve; the frame of a turn that solved has the new delay.
BaseFollowsSolve(i, solves) ==
    /\ fates[i].before =
           IF i = 1
           THEN FindBestRate(InitialTickrate(parsedSong.Subsongs[1]), conv)
                    .frameDelay
           ELSE fates[i - 1].base
    /\ IF solves /\ FindBestRate(fates[i].target, conv).ok
       THEN /\ fates[i].base = FindBestRate(fates[i].target, conv).frameDelay
            /\ Lowered(fates[i]) => fates[i].delay = fates[i].base
       ELSE fates[i].base = fates[i].before

\* The row of turn i has no effect or one: a row with more tempo effects
\* ends lowering after the solve of its first.
SingleEffectTurn(i) == Len(RowsOf[fates[i].row + 1].Effects) <= 1

SpeedCounts == Len(parsedSong.Subsongs[1].Speeds) = 1

NoteOfTurn(i, ch) == RowsOf[fates[i].row + 1].Notes[ch + 1]

\* Read from the rows of the turns before turn i: channel ch is off when
\* none of them has a pitch or an OFF in it, or the latest such is an OFF.
StatedOff(i, ch) ==
    LET turns == {j \in 1..(i - 1) :
                     NoteOfTurn(j, ch).HasPitch \/ NoteOfTurn(j, ch).Off}
    IN  turns = {}
        \/ NoteOfTurn(CHOOSE j \in turns : \A k \in turns : k <= j, ch).Off

\* The most recent volume given for channel ch in turns 1..i, 15 if none.
StatedVolume(i, ch) ==
    LET turns == {j \in 1..i : NoteOfTurn(j, ch).HasVolume}
    IN  IF turns = {} THEN 15
        ELSE NoteOfTurn(CHOOSE j \in turns : \A k \in turns : k <= j, ch).Volume

\* The attenuations the statement gives the frame of turn i for channel ch.
StatedAttenuations(i, ch) ==
    LET note == NoteOfTurn(i, ch)
    IN  IF note.Off THEN {15}
        ELSE IF StatedOff(i, ch)
        THEN IF note.HasPitch THEN {15 - StatedVolume(i, ch)} ELSE {}
        ELSE IF note.HasVolume THEN {15 - note.Volume} ELSE {}

\* C31: across any sequence of rows, while a channel is off a volume cell
\* only records channel_volumes[ch] and emits no attenuation; a pitch that
\* arrives on the off channel gives the frame SetAttenuation(ch, 15 - V) for
\* the most recent volume V (15 if none) and turns the channel on; while
\* the channel is on a volume v emits SetAttenuation(ch, 15 - v).
C31_VolumeDeferredWhileOff ==
    \A ch \in 0..3 :
        /\ \A i \in 1..Len(fates) :
               /\ fates[i].offs[ch + 1] = StatedOff(i, ch)
               /\ (Lowered(fates[i]) /\ fates[i].copies = 1) =>
                      {low.song.Frames[fates[i].index + 1].commands[k].attenuation :
                          k \in CommandsOf(low.song.Frames[fates[i].index + 1],
                                           SetAttenuationCommand, ch)}
                          = StatedAttenuations(i, ch)
        /\ low.pc \in {"rows", "finish", "done"} =>
               /\ low.channelOffs[ch + 1] = StatedOff(Len(fates) + 1, ch)
               /\ low.channelVolumes[ch + 1] = StatedVolume(Len(fates), ch)

\* A volume was given while channel 0 was off, a later row brought the
\* pitch, and a row after it gave a volume to the channel, now on.
C31_Witness ==
    \E i \in 3..Len(fates) :
        /\ NoteOfTurn(i - 2, 0).HasVolume /\ ~NoteOfTurn(i - 2, 0).HasPitch
        /\ fates[i - 2].offs[1]
        /\ NoteOfTurn(i - 1, 0).HasPitch /\ ~NoteOfTurn(i - 1, 0).HasVolume
        /\ NoteOfTurn(i, 0).HasVolume /\ ~fates[i].offs[1]
        /\ Lowered(fates[i])

TempoTypes == {EffectSpeed, EffectTickRateHz, EffectTickRateBpm}

\* The row of turn i carries two effects, both tempo-changing.
TwoTempoTurn(i) ==
    /\ Len(RowsOf[fates[i].row + 1].Effects) = 2
    /\ RowsOf[fates[i].row + 1].Effects[1].Type \in TempoTypes
    /\ RowsOf[fates[i].row + 1].Effects[2].Type \in TempoTypes

\* C32 as stated: a row that carries two tempo-changing effects (any two
\* of Speed, TickRateHz, TickRateBpm) aborts lowering with an error from
\* the second SetNewTempo and returns no song.
C32_TwoTempoEffectsAbort ==
    \A i \in 1..Len(fates) :
        TwoTempoTurn(i) => fates[i].failed /\ low.err = "frame tempo"

\* The target the effect hands to the solver when the tick rate is rate
\* and the speed is speed, and the rate and speed after it.
StatedTarget(effect, rate, speed) ==
    LET timeBase == parsedSong.Subsongs[1].TimeBase
    IN  CASE effect.Type = EffectSpeed ->
                 [num |-> rate.num, den |-> rate.den * effect.Value * (timeBase + 1)]
          [] effect.Type = EffectTickRateHz ->
                 [num |-> effect.Value, den |-> speed * (timeBase + 1)]
          [] OTHER ->
                 [num |-> effect.Value * 24, den |-> 60 * speed * (timeBase + 1)]

\* Both solves of a row of two counted tempo effects succeed.
BothSolved(i) ==
    LET first == RowsOf[fates[i].row + 1].Effects[1]
        second == RowsOf[fates[i].row + 1].Effects[2]
        rate == StatedTickRate(i - 1)
        speed == StatedSpeed(i - 1, SpeedCounts)
    IN  /\ FindBestRate(StatedTarget(first, rate, speed), conv).ok
        /\ FindBestRate(
               StatedTarget(second,
                   CASE first.Type = EffectTickRateHz ->
                            [num |-> first.Value, den |-> 1]
                     [] first.Type = EffectTickRateBpm ->
                            [num |-> first.Value * 24, den |-> 60]
                     [] OTHER -> rate,
                   IF first.Type = EffectSpeed THEN first.Value ELSE speed),
               conv).ok

\* The effects of the row of turn i that hand a target to the solver: all
\* but the Speed effects of a subsong with more than one speed.
CountedEffects(i) ==
    {k \in 1..Len(RowsOf[fates[i].row + 1].Effects) :
        /\ RowsOf[fates[i].row + 1].Effects[k].Type \in TempoTypes
        /\ RowsOf[fates[i].row + 1].Effects[k].Type = EffectSpeed => SpeedCounts}

\* C32 (amended): a row with two tempo-changing effects that both hand a
\* target to the solver aborts lowering: with the error of the second
\* SetNewTempo when both solves succeed, with the solver's error
\* otherwise.  A Speed effect of a subsong with more than one speed is
\* ignored, and a row with fewer than two counted effects does not fail in
\* SetNewTempo.
C32_TwoSolvedTempoEffectsAbort ==
    \A i \in 1..Len(fates) :
        TwoTempoTurn(i) =>
            IF Cardinality(CountedEffects(i)) = 2
            THEN /\ fates[i].failed
                 /\ low.err = IF BothSolved(i) THEN "frame tempo" ELSE "tickrate"
            ELSE low.err # "frame tempo"

\* A row with two solved tempo effects was processed.
C32_Witness ==
    \E i \in 1..Len(fates) :
        /\ TwoTempoTurn(i)
        /\ Cardinality(CountedEffects(i)) = 2
        /\ low.err = "frame tempo"
        /\ RowsOf[fates[i].row + 1].Effects[1].Type = EffectSpeed

\* The row of turn i has a pitch in channel 2 and in channel 3, and the
\* noise rate type is Channel3: no NoiseControl effect was processed up to
\* this row, or the latest one has the rate nibble 1.
BothPitchesTurn(i) ==
    LET turns == {j \in 1..i : TurnHas(j, EffectNoiseControl)}
    IN  /\ NoteOfTurn(i, 2).HasPitch
        /\ NoteOfTurn(i, 3).HasPitch
        /\ turns = {} \/ LatestValue(turns) \div 16 = 1

\* The period of the pitch of turn i in channel ch.
PeriodOfTurn(i, ch) ==
    CalculateSquarePeriod(pitchToFreq(NoteOfTurn(i, ch).Pitch, parsedSong.Tuning),
                          4000000, conv)

\* C33 as stated: while the noise rate type is Channel3 (also the state
\* before any NoiseControl effect) a row with a pitch on both channel 2
\* and channel 3 aborts lowering with a duplicate SetSquarePeriod(2) error
\* rather than producing a frame.
C33_BothPitchesDuplicate ==
    \A i \in 1..Len(fates) :
        BothPitchesTurn(i) =>
            /\ fates[i].failed
            /\ low.err = "noise period"
            /\ SquarePeriodError(low.frame, 2, PeriodOfTurn(i, 3)) = "duplicate"

\* C33 (amended): such a row always aborts lowering: in channel 2 with the
\* range error when the period of its pitch is above 1023, else in channel
\* 3, with the range error when the period of that pitch is above 1023 and
\* with the duplicate error otherwise.
C33_BothPitchesAbort ==
    \A i \in 1..Len(fates) :
        BothPitchesTurn(i) =>
            /\ fates[i].failed
            /\ IF PeriodOfTurn(i, 2) > maxSquarePeriod
               THEN /\ low.err = "channel period"
                    /\ SquarePeriodError(low.frame, 2, PeriodOfTurn(i, 2)) = "range"
               ELSE /\ low.err = "noise period"
                    /\ SquarePeriodError(low.frame, 2, PeriodOfTurn(i, 3))
                           = IF PeriodOfTurn(i, 3) > maxSquarePeriod
                             THEN "range" ELSE "duplicate"

\* A row with both pitches in range failed below the cell 2011.
C33_Witness ==
    \E i \in 2..Len(fates) :
        /\ BothPitchesTurn(i)
        /\ TurnHas(i - 1, EffectNoiseControl)
        /\ PeriodOfTurn(i, 2) <= maxSquarePeriod
        /\ PeriodOfTurn(i, 3) <= maxSquarePeriod
        /\ low.err = "noise period"

\* C34: for a subsong with pattern_length > 0 and any rows and effects,
\* row_index strictly increases at every iteration of the row loop, so
\* lowering ends after at most len(rows) iterations.
C34_RowIndexIncreases ==
    parsedSong.Subsongs[1].PatternLength > 0 =>
        /\ Len(fates) <= Len(RowsOf)
        /\ \A i \in 1..Len(fates) :
               /\ fates[i].row \in 0..(Len(RowsOf) - 1)
               /\ i < Len(fates) => fates[i].row < fates[i + 1].row
               /\ (i = Len(fates) /\ Lowered(fates[i])) =>
                      fates[i].row < low.rowIndex

\* A forward jump skipped a row, a row was folded and a row was appended.
C34_Witness ==
    /\ low.pc = "done"
    /\ \E i, j, k \in 1..Len(fates) :
           /\ i < Len(fates) /\ fates[i + 1].row > fates[i].row + 1
           /\ fates[j].folded
           /\ fates[k].copies = 1

\* C35: every successfully lowered song starts with the reset frame
\* (SetNoiseControl(White, Channel3) and SetAttenuation(ch, 15) for ch in
\* 0..3) at index 0 and contains exactly one frame with loop_to_target =
\* true, which is the last frame and has no commands, no tempo change and
\* zero delay.
C35_ResetFirstTerminalLast ==
    low.pc = "done" =>
        LET frames == low.song.Frames
            first == frames[1]
            final == frames[Len(frames)]
        IN  /\ Len(frames) >= 2
            /\ Len(first.commands) = 5
            /\ {<<first.commands[k].noiseMode, first.commands[k].noiseRate>> :
                    k \in CommandsOfType(first, SetNoiseControlCommand)}
                   = {<<WhiteNoise, Channel3Noise>>}
            /\ \A ch \in 0..3 :
                   {first.commands[k].attenuation :
                       k \in CommandsOf(first, SetAttenuationCommand, ch)} = {15}
            /\ ~first.hasTempoChange
            /\ {k \in 1..Len(frames) : frames[k].LoopToTarget} = {Len(frames)}
            /\ final.commands = <<>>
            /\ ~final.hasTempoChange
            /\ final.FrameDelay = 0

\* Lowering ended through a StopSong after a row was folded into the reset
\* frame.
C35_Witness ==
    /\ low.pc = "done"
    /\ low.isHalted
    /\ low.song.Frames[1].FrameDelay > 0
    /\ Len(low.song.Frames) = 3

\* The row of turn i has no effect and no pitch, volume or OFF.
BlankTurn(i) == RowsOf[fates[i].row + 1] = Row(<<>>, NoNotes)

\* C36: blank-row coalescing never wraps a frame delay: a blank row is
\* folded into the previous frame only when previous frame_delay +
\* base_frame_delay <= 255; otherwise the blank row is appended as its own
\* frame with frame_delay = base_frame_delay and no commands.
C36_FoldNeverWraps ==
    /\ \A k \in 1..Len(low.song.Frames) :
           low.song.Frames[k].FrameDelay \in 0..255
    /\ \A i \in 1..Len(fates) :
           (BlankTurn(i) /\ Lowered(fates[i])) =>
               IF fates[i].prev + fates[i].base <= 255
               THEN /\ fates[i].folded
                    /\ fates[i].cycles = fates[i].base
               ELSE /\ fates[i].copies = 1 /\ fates[i].terminals = 0
                    /\ fates[i].delay = fates[i].base
                    /\ low.song.Frames[fates[i].index + 1].commands = <<>>
                    /\ ~low.song.Frames[fates[i].index + 1].hasTempoChange

\* Blank rows were folded into the previous frame and the next blank row
\* was appended as its own frame because the sum would have passed 255.
C36_Witness ==
    \E i \in 2..Len(fates) :
        /\ BlankTurn(i - 1) /\ fates[i - 1].folded
        /\ BlankTurn(i) /\ fates[i].copies = 1
        /\ fates[i].prev + fates[i].base > 255

\* C37: for every frame reachable through the setters the chip command
\* bytes total at most 11, a frame without a tempo change has size at most
\* 13 and every frame has size at most 15; hence the header nibble N is in
\* 0..14, command index 14 is reached only in frames that have a tempo
\* change, and no two-byte period command straddles the frame-delay slot
\* at index 1.
C37_FrameSizeBounds ==
    /\ CommandBytesFrom(frame.commands, 1) <= 11
    /\ ~frame.hasTempoChange => FrameCalculateSize(frame) <= 13
    /\ FrameCalculateSize(frame) <= 15
    /\ BitAnd(FrameCalculateSize(frame), 15) - 1 \in 0..14
    /\ BitAnd(FrameCalculateSize(frame), 15) - 1 = 14 => frame.hasTempoChange
    /\ 2 \notin PeriodSlots(frame, BitAnd(FrameCalculateSize(frame), 15) - 1, 0)
    /\ ~EmitCommands(frame, BitAnd(FrameCalculateSize(frame), 15) - 1, 0, 0,
                     <<>>).panicked

\* A frame with a tempo change and all eight commands, the last of them a
\* period.
C37_Witness ==
    /\ frame.hasTempoChange
    /\ Len(frame.commands) = 8
    /\ CommandBytesFrom(frame.commands, 1) = 11
    /\ frame.commands[8].commandType = SetSquarePeriodCommand
    /\ PeriodSlots(frame, 14, 0) # {}

\* C38: a line is parsed as a pattern row only after the current subsong
\* has seen 'orders:' and then '## Patterns', in that order; a
\* '## Patterns' line seen while the subsong is still in its metadata
\* sub-state does not start row parsing, and a new subsong header resets
\* the sub-state to metadata.
C38_RowsAfterOrdersThenPatterns ==
    returned = <<>> =>
        /\ parser.Ctx.parsingRows => input.phase = "patterns"
        /\ input.phase = "header" =>
               /\ parser.Ctx.parsingMetadata
               /\ ~parser.Ctx.parsingOrders
               /\ ~parser.Ctx.parsingRows

UsedOnceState ==
    /\ parser.used <=> input.calls > 0
    /\ parser.lineNumber > 0 => parser.used
    /\ input.calls > 1 =>
           /\ Len(returned) = input.calls
           /\ \A k \in 2..Len(returned) :
                  returned[k] = [err |-> "parser already used", song |-> <<>>]

\* A Parse call after the first leaves the Parser and the first result as
\* they were.
LaterCallKeepsParser ==
    input.calls > 0 /\ input'.calls > input.calls =>
        /\ parser' = parser
        /\ returned'[1] = returned[1]

\* C40: the Parser is marked used by the first Parse call before a line is
\* read, and a later Parse call returns "parser already used" and changes
\* neither the Parser nor the first result.
C40_UsedOnce == []UsedOnceState /\ [][LaterCallKeepsParser]_vars

\* Parse was called three times on a Parser whose first call returned a
\* song.
C40_Witness ==
    /\ input.calls = 3
    /\ Len(returned) = 3
    /\ returned[1].err = "none"
    /\ returned[3].err = "parser already used"
    /\ parser.lineNumber > 0
====
